---- MODULE Spec2Model ----
(***************************************************************************)
(* Model of cert-checker's trust decision engine:                          *)
(*   checker/remote.py     RemoteCertChecker (expiration, hostname match,  *)
(*                         check_host, check_all_hosts)                    *)
(*   checker/validator.py  CertificateValidator (validate_chain)           *)
(*   config.py             Config.get_enabled_hosts                        *)
(*   utils/cert_parser.py  CertificateParser accessors                     *)
(*                                                                         *)
(* Conventions.  A Python str is a sequence of one-character strings, so   *)
(* that lower(), split(".") and startswith() are computed, not assumed.    *)
(* An Optional[T] is a sequence of length 0 (None) or 1 (the value).       *)
(* Instants are whole hours on the UTC time line.  A call that can raise   *)
(* yields [kind |-> "return", value |-> v] or [kind |-> "raise", exc |-> e]*)
(***************************************************************************)
EXTENDS Integers, Sequences, FiniteSets, TLC

VARIABLES expCall, matchCall, hostCall, batch, iso, vc,
          sched, vhCall, sigCall, vsCall, fetch, csvCall, watch, win

vars == <<expCall, matchCall, hostCall, batch, iso, vc,
          sched, vhCall, sigCall, vsCall, fetch, csvCall, watch, win>>

None == <<>>

Some(v) == <<v>>

Min(a, b) == IF a < b THEN a ELSE b

Returned(v) == [kind |-> "return", value |-> v]

Raised(e) == [kind |-> "raise", exc |-> e]

(***************************************************************************)
(* Bounds of the explored input space.                                     *)
(***************************************************************************)
MaxHours == 60

MaxWarnDays == 2

MaxPat == 4

MaxHost == 5

MaxHosts == 3

MaxChain == 3

MaxTrust == 2

MaxKeys == 3

(***************************************************************************)
(* Python str helpers.                                                     *)
(***************************************************************************)
LowerChar(c) == IF c = "A" THEN "a" ELSE IF c = "B" THEN "b" ELSE c

Lower(s) == [k \in 1..Len(s) |-> LowerChar(s[k])]

StartsWith(s, p) == Len(s) >= Len(p) /\ SubSeq(s, 1, Len(p)) = p

RECURSIVE Split(_)
Split(s) ==
    IF \A k \in 1..Len(s) : s[k] # "."
    THEN <<s>>
    ELSE LET d == CHOOSE k \in 1..Len(s) :
                      s[k] = "." /\ \A j \in 1..(k - 1) : s[j] # "."
         IN  <<SubSeq(s, 1, d - 1)>> \o Split(SubSeq(s, d + 1, Len(s)))

Tail1(parts) == SubSeq(parts, 2, Len(parts))

(***************************************************************************)
(* Certificates as seen through CertificateParser.  subject and issuer are *)
(* X.509 names reduced to their list of CN attribute values; san holds the *)
(* DNS entries of the subjectAltName extension; ext_malformed marks a      *)
(* certificate whose extension block cannot be decoded; san_ip holds the   *)
(* IP-address entries of the same extension.  key is the                   *)
(* certificate's public key, signer the id of the key that produced its    *)
(* signature over its to-be-signed bytes; basic_constraints and key_usage  *)
(* are the optional extensions.                                            *)
(***************************************************************************)
HoursPerDay == 24

Key(alg, id) == [alg |-> alg, id |-> id]

BasicConstraints(ca, path_length) == [ca |-> ca, path_length |-> path_length]

KeyUsage(key_cert_sign) == [key_cert_sign |-> key_cert_sign]

BaseCert ==
    [subject |-> <<>>, issuer |-> <<>>, san |-> <<>>, san_ip |-> <<>>,
     not_before |-> -1000, not_after |-> 0, ext_malformed |-> FALSE,
     key |-> Key("RSA", "k0"), signer |-> "k0", sig_hash |-> "sha256",
     basic_constraints |-> None, key_usage |-> None]

get_validity_period(cert) == <<cert.not_before, cert.not_after>>

get_subject_cn(cert) ==
    IF Len(cert.subject) > 0 THEN Some(cert.subject[1]) ELSE None

get_san_AllTypes(cert) ==
    IF cert.ext_malformed
    THEN Raised([cls |-> "ValueError", msg |-> "error parsing asn1 value"])
    ELSE Returned(cert.san \o cert.san_ip)

get_san(cert) ==
    IF cert.ext_malformed
    THEN Raised([cls |-> "ValueError", msg |-> "error parsing asn1 value"])
    ELSE Returned(cert.san)

(***************************************************************************)
(* RemoteCertChecker.check_expiration                                      *)
(***************************************************************************)
TimedeltaDays_Truncating(delta) ==
    IF delta >= 0 THEN delta \div HoursPerDay
    ELSE 0 - ((0 - delta) \div HoursPerDay)

TimedeltaDays_Ceiling(delta) == 0 - ((0 - delta) \div HoursPerDay)

TimedeltaDays(delta) == delta \div HoursPerDay

IsExpired_Inclusive(now, not_after) == now >= not_after

IsExpired(now, not_after) == now > not_after

IsWarning_ExcludesLastDay(is_expired, days_remaining, warning_days) ==
    ~is_expired /\ days_remaining < warning_days /\ days_remaining > 0

IsWarning(is_expired, days_remaining, warning_days) ==
    ~is_expired /\ days_remaining < warning_days

ExpirationStatus(is_expired, is_warning) ==
    IF is_expired THEN "EXPIRED"
    ELSE IF is_warning THEN "WARNING"
    ELSE "VALID"

check_expiration(cert, warning_days, now) ==
    LET period         == get_validity_period(cert)
        not_before     == period[1]
        not_after      == period[2]
        days_remaining == TimedeltaDays(not_after - now)
        is_expired     == IsExpired(now, not_after)
        is_warning     == IsWarning(is_expired, days_remaining, warning_days)
    IN  [not_before     |-> not_before,
         not_after      |-> not_after,
         days_remaining |-> days_remaining,
         is_expired     |-> is_expired,
         is_warning     |-> is_warning,
         status         |-> ExpirationStatus(is_expired, is_warning)]

(***************************************************************************)
(* RemoteCertChecker._match_hostname                                       *)
(***************************************************************************)
WildcardPartsEqual(pattern_parts, hostname_parts) ==
    LET ps == Tail1(pattern_parts)
        hs == Tail1(hostname_parts)
    IN  \A k \in 1..Min(Len(ps), Len(hs)) : ps[k] = hs[k]

match_hostname_CaseSensitiveHostname(pattern0, hostname0) ==
    LET pattern  == Lower(pattern0)
        hostname == hostname0
    IN  IF pattern = hostname THEN TRUE
        ELSE IF StartsWith(pattern, <<"*", ".">>)
        THEN LET pattern_parts  == Split(pattern)
                 hostname_parts == Split(hostname)
             IN  IF Len(pattern_parts) # Len(hostname_parts) THEN FALSE
                 ELSE WildcardPartsEqual(pattern_parts, hostname_parts)
        ELSE FALSE

match_hostname(pattern0, hostname0) ==
    LET pattern  == Lower(pattern0)
        hostname == Lower(hostname0)
    IN  IF pattern = hostname THEN TRUE
        ELSE IF StartsWith(pattern, <<"*", ".">>)
        THEN LET pattern_parts  == Split(pattern)
                 hostname_parts == Split(hostname)
             IN  IF Len(pattern_parts) # Len(hostname_parts) THEN FALSE
                 ELSE WildcardPartsEqual(pattern_parts, hostname_parts)
        ELSE FALSE

(***************************************************************************)
(* RemoteCertChecker.verify_hostname                                       *)
(***************************************************************************)
AnySanMatches(san_list, fqdn) ==
    \E k \in 1..Len(san_list) : match_hostname(san_list[k], fqdn)

verify_hostname(cert, fqdn) ==
    LET cn == get_subject_cn(cert)
    IN  IF cn # None /\ Len(cn[1]) > 0 /\ match_hostname(cn[1], fqdn)
        THEN Returned(TRUE)
        ELSE LET san_list == get_san(cert)
             IN  IF san_list.kind = "raise" THEN san_list
                 ELSE Returned(AnySanMatches(san_list.value, fqdn))

(***************************************************************************)
(* RemoteCertChecker.get_certificate_chain against a network environment:  *)
(* net.connect and net.handshake hold the exception the step raises, if    *)
(* any; net.der is what getpeercert(binary_form=True) hands back.          *)
(***************************************************************************)
Exc(cls, msg) == [cls |-> cls, msg |-> msg]

parse_der(der) ==
    IF der.wellformed THEN Returned(der.cert)
    ELSE Raised(Exc("ValueError", "error parsing asn1 value"))

get_certificate_chain(net) ==
    IF net.connect # None THEN Raised(net.connect[1])
    ELSE IF net.handshake # None THEN Raised(net.handshake[1])
    ELSE IF net.der # None /\ ~net.der[1].empty
    THEN LET cert == parse_der(net.der[1])
         IN  IF cert.kind = "raise" THEN cert
             ELSE Returned(<<cert.value>>)
    ELSE Returned(<<>>)

(***************************************************************************)
(* get_certificate_chain step by step, with the two resources it opens:    *)
(* sock, the TCP socket of socket.create_connection, and ssock, the TLS    *)
(* socket of context.wrap_socket.  wrap_socket moves the descriptor from   *)
(* sock to ssock (sock is detached) and closes ssock itself when the       *)
(* handshake fails; leaving a with block closes what is still open.        *)
(***************************************************************************)
NewFetch(fqdn, port, timeout, net) ==
    [pc |-> "connect", fqdn |-> fqdn, port |-> port, timeout |-> timeout,
     net |-> net, sock |-> "none", ssock |-> "none", outcome |-> None]

IdleFetch ==
    [NewFetch(<<>>, 443, None, [connect |-> None, handshake |-> None,
                                der |-> None]) EXCEPT !.pc = "idle"]

WithExit_Leak(resource) == resource

WithExit(resource) == IF resource = "open" THEN "closed" ELSE resource

ConnectStep(f) ==
    IF f.net.connect # None
    THEN [f EXCEPT !.pc = "done", !.outcome = Some(Raised(f.net.connect[1]))]
    ELSE [f EXCEPT !.pc = "wrap", !.sock = "open"]

WrapStep(f) ==
    IF f.net.handshake # None
    THEN [f EXCEPT !.pc = "done", !.ssock = "closed",
                   !.sock = WithExit("detached"),
                   !.outcome = Some(Raised(f.net.handshake[1]))]
    ELSE [f EXCEPT !.pc = "read", !.sock = "detached", !.ssock = "open"]

ReadStep(f) ==
    LET der_cert_chain == f.net.der
        body == IF der_cert_chain # None /\ ~der_cert_chain[1].empty
                THEN LET cert == parse_der(der_cert_chain[1])
                     IN  IF cert.kind = "raise" THEN cert
                         ELSE Returned(<<cert.value>>)
                ELSE Returned(<<>>)
    IN  [f EXCEPT !.pc = "done", !.ssock = WithExit(f.ssock),
                  !.sock = WithExit(f.sock), !.outcome = Some(body)]

(***************************************************************************)
(* RemoteCertChecker.check_host                                            *)
(***************************************************************************)
SelfTimeout == 10

Bases(cls) ==
    CASE cls = "timeout"                -> {"timeout", "OSError", "Exception"}
      [] cls = "gaierror"               -> {"gaierror", "OSError", "Exception"}
      [] cls = "ConnectionRefusedError" ->
             {"ConnectionRefusedError", "OSError", "Exception"}
      [] cls = "SSLError"               -> {"SSLError", "OSError", "Exception"}
      [] cls = "OSError"                -> {"OSError", "Exception"}
      [] OTHER                          -> {cls, "Exception"}

IsInstance(e, cls) == cls \in Bases(e.cls)

HostCheckResult(host_name, fqdn, port, status, cert, chain, exp, hv, error) ==
    [host_name |-> host_name, fqdn |-> fqdn, port |-> port,
     status |-> status, certificate |-> cert,
     certificate_chain |-> chain, expiration |-> exp,
     hostname_valid |-> hv, error |-> error]

ErrorResult(host_name, fqdn, port, error) ==
    HostCheckResult(host_name, fqdn, port, "ERROR",
                    None, None, None, None, Some(error))

OrDefault(opt, default, falsy) ==
    IF opt # None /\ opt[1] # falsy THEN opt[1] ELSE default

OverallStatus_ValidOnly(expiration_status, hostname_valid) ==
    IF ~hostname_valid /\ expiration_status = "VALID" THEN "ERROR"
    ELSE expiration_status

OverallStatus_ExpiredIsError(expiration_status, hostname_valid) ==
    IF ~hostname_valid \/ expiration_status = "EXPIRED" THEN "ERROR"
    ELSE expiration_status

OverallStatus(expiration_status, hostname_valid) ==
    IF ~hostname_valid THEN "ERROR" ELSE expiration_status

CheckHostBody_MismatchError(fqdn, port, warning_days, host_name, timeout, net, now) ==
    LET cert_chain == get_certificate_chain(net)
    IN  IF cert_chain.kind = "raise" THEN cert_chain
        ELSE IF Len(cert_chain.value) = 0
        THEN Returned(ErrorResult(host_name, fqdn, port,
                                  <<"No certificate received">>))
        ELSE LET cert           == cert_chain.value[1]
                 expiration     == check_expiration(cert, warning_days, now)
                 hostname_valid == verify_hostname(cert, fqdn)
             IN  IF hostname_valid.kind = "raise" THEN hostname_valid
                 ELSE Returned(HostCheckResult(
                          host_name, fqdn, port,
                          OverallStatus(expiration.status,
                                        hostname_valid.value),
                          Some(cert), Some(cert_chain.value),
                          Some(expiration), Some(hostname_valid.value),
                          IF hostname_valid.value THEN None
                          ELSE Some(<<"Hostname mismatch">>)))

CheckHostBody(fqdn, port, warning_days, host_name, timeout, net, now) ==
    LET cert_chain == get_certificate_chain(net)
    IN  IF cert_chain.kind = "raise" THEN cert_chain
        ELSE IF Len(cert_chain.value) = 0
        THEN Returned(ErrorResult(host_name, fqdn, port,
                                  <<"No certificate received">>))
        ELSE LET cert           == cert_chain.value[1]
                 expiration     == check_expiration(cert, warning_days, now)
                 hostname_valid == verify_hostname(cert, fqdn)
             IN  IF hostname_valid.kind = "raise" THEN hostname_valid
                 ELSE Returned(HostCheckResult(
                          host_name, fqdn, port,
                          OverallStatus(expiration.status,
                                        hostname_valid.value),
                          Some(cert), Some(cert_chain.value),
                          Some(expiration), Some(hostname_valid.value),
                          None))

CheckHostExcept_NoCatchAll(e, host_name, fqdn, port, timeout) ==
    IF IsInstance(e, "timeout")
    THEN Returned(ErrorResult(host_name, fqdn, port,
             <<"Connection timeout after ",
               ToString(OrDefault(timeout, SelfTimeout, 0)), "s">>))
    ELSE IF IsInstance(e, "gaierror")
    THEN Returned(ErrorResult(host_name, fqdn, port,
             <<"DNS resolution failed: ", e.msg>>))
    ELSE IF IsInstance(e, "OSError") \/ IsInstance(e, "SSLError")
    THEN Returned(ErrorResult(host_name, fqdn, port,
             <<"Connection error: ", e.msg>>))
    ELSE Raised(e)

CheckHostExcept_OSErrorFirst(e, host_name, fqdn, port, timeout) ==
    IF IsInstance(e, "OSError") \/ IsInstance(e, "SSLError")
    THEN Returned(ErrorResult(host_name, fqdn, port,
             <<"Connection error: ", e.msg>>))
    ELSE IF IsInstance(e, "timeout")
    THEN Returned(ErrorResult(host_name, fqdn, port,
             <<"Connection timeout after ",
               ToString(OrDefault(timeout, SelfTimeout, 0)), "s">>))
    ELSE IF IsInstance(e, "gaierror")
    THEN Returned(ErrorResult(host_name, fqdn, port,
             <<"DNS resolution failed: ", e.msg>>))
    ELSE IF IsInstance(e, "Exception")
    THEN Returned(ErrorResult(host_name, fqdn, port,
             <<"Unexpected error: ", e.msg>>))
    ELSE Raised(e)

CheckHostExcept(e, host_name, fqdn, port, timeout) ==
    IF IsInstance(e, "timeout")
    THEN Returned(ErrorResult(host_name, fqdn, port,
             <<"Connection timeout after ",
               ToString(OrDefault(timeout, SelfTimeout, 0)), "s">>))
    ELSE IF IsInstance(e, "gaierror")
    THEN Returned(ErrorResult(host_name, fqdn, port,
             <<"DNS resolution failed: ", e.msg>>))
    ELSE IF IsInstance(e, "OSError") \/ IsInstance(e, "SSLError")
    THEN Returned(ErrorResult(host_name, fqdn, port,
             <<"Connection error: ", e.msg>>))
    ELSE IF IsInstance(e, "Exception")
    THEN Returned(ErrorResult(host_name, fqdn, port,
             <<"Unexpected error: ", e.msg>>))
    ELSE Raised(e)

check_host(fqdn, port, warning_days, host_name0, timeout, net, now) ==
    LET host_name == OrDefault(host_name0, fqdn, <<>>)
        body == CheckHostBody(fqdn, port, warning_days, host_name,
                              timeout, net, now)
    IN  IF body.kind = "return" THEN body
        ELSE CheckHostExcept(body.exc, host_name, fqdn, port, timeout)

(***************************************************************************)
(* DisplayFormatter.export_csv.  Text is a sequence of string fragments;   *)
(* "," and "\n" are fragments of their own, so the output can be split     *)
(* back into lines and fields.                                             *)
(***************************************************************************)
get_issuer_cn(cert) ==
    IF Len(cert.issuer) > 0 THEN Some(cert.issuer[1]) ELSE None

StatusValue(status) ==
    CASE status = "VALID"   -> "valid"
      [] status = "WARNING" -> "warning"
      [] status = "EXPIRED" -> "expired"
      [] status = "ERROR"   -> "error"

Strftime(instant) == <<"day ", ToString(instant \div HoursPerDay)>>

Truthy(text) == \E k \in 1..Len(text) : text[k] # ""

CsvHeader ==
    <<"Host", ",", "FQDN", ",", "Port", ",", "Status", ",", "Subject", ",",
      "Issuer", ",", "Expiry", ",", "Days Remaining", ",", "Error">>

CsvRow(result) ==
    IF result.error # None /\ Truthy(result.error[1])
    THEN Some(result.host_name \o <<",">> \o result.fqdn \o <<",">>
                \o <<ToString(result.port)>> \o <<",">>
                \o <<StatusValue(result.status)>>
                \o <<",", ",", ",", ",">> \o result.error[1])
    ELSE IF result.certificate # None /\ result.expiration # None
    THEN LET subject_cn == OrDefault(get_subject_cn(result.certificate[1]),
                                     <<>>, <<>>)
             issuer_cn  == OrDefault(get_issuer_cn(result.certificate[1]),
                                     <<>>, <<>>)
             expiry     == Strftime(result.expiration[1].not_after)
             days       == result.expiration[1].days_remaining
         IN  Some(result.host_name \o <<",">> \o result.fqdn \o <<",">>
                    \o <<ToString(result.port)>> \o <<",">>
                    \o <<StatusValue(result.status)>> \o <<",">>
                    \o subject_cn \o <<",">> \o issuer_cn \o <<",">>
                    \o expiry \o <<",">> \o <<ToString(days)>> \o <<",">>)
    ELSE None

RECURSIVE CsvLines(_)
CsvLines(results) ==
    IF results = <<>> THEN <<>>
    ELSE CsvRow(results[1]) \o CsvLines(Tail(results))

RECURSIVE JoinLines(_)
JoinLines(lines) ==
    IF Len(lines) = 0 THEN <<>>
    ELSE IF Len(lines) = 1 THEN lines[1]
    ELSE lines[1] \o <<"\n">> \o JoinLines(Tail(lines))

export_csv(results) == JoinLines(<<CsvHeader>> \o CsvLines(results))

(***************************************************************************)
(* CertificateValidator.verify_signature, check_key_usage and              *)
(* check_basic_constraints.                                                *)
(***************************************************************************)
(* issuer_cert.public_key(): a key type the library cannot load raises. *)
CertPublicKey(issuer_cert) ==
    IF issuer_cert.key.alg = "Unsupported"
    THEN Raised(Exc("UnsupportedAlgorithm", "Key type is not supported"))
    ELSE Returned(issuer_cert.key)

(* public_key.verify(cert.signature, cert.tbs_certificate_bytes, ...,      *)
(* cert.signature_hash_algorithm): the argument is evaluated first and     *)
(* raises for an unknown hash; a certificate without a hash algorithm      *)
(* passes None, which verify rejects with a TypeError.                     *)
PublicKeyVerify(public_key, cert) ==
    IF cert.sig_hash = "unknown"
    THEN Raised(Exc("UnsupportedAlgorithm",
                    "Signature algorithm OID is not recognized"))
    ELSE IF cert.sig_hash = "none"
    THEN Raised(Exc("TypeError", "Expected instance of hashes.HashAlgorithm"))
    ELSE IF cert.signer = public_key.id THEN Returned(None)
    ELSE Raised(Exc("InvalidSignature", ""))

VerifySignatureBody(cert, issuer_cert) ==
    LET public_key == CertPublicKey(issuer_cert)
    IN  IF public_key.kind = "raise" THEN public_key
        ELSE IF public_key.value.alg \in {"RSA", "EC", "DSA"}
        THEN LET verified == PublicKeyVerify(public_key.value, cert)
             IN  IF verified.kind = "raise" THEN verified
                 ELSE Returned(TRUE)
        ELSE Returned(FALSE)

VerifySignatureExcept_OnlyInvalidSignature(body) ==
    IF body.kind = "return" THEN body
    ELSE IF IsInstance(body.exc, "InvalidSignature") THEN Returned(FALSE)
    ELSE body

VerifySignatureExcept(body) ==
    IF body.kind = "return" THEN body
    ELSE IF IsInstance(body.exc, "InvalidSignature") THEN Returned(FALSE)
    ELSE IF IsInstance(body.exc, "Exception") THEN Returned(FALSE)
    ELSE body

VerifySignatureCall(cert, issuer_cert) ==
    VerifySignatureExcept(VerifySignatureBody(cert, issuer_cert))

verify_signature(cert, issuer_cert) ==
    LET outcome == VerifySignatureCall(cert, issuer_cert)
    IN  outcome.kind = "return" /\ outcome.value

ValidationResult(status, messages, is_valid) ==
    [status |-> status, messages |-> messages, is_valid |-> is_valid]

check_key_usage_MissingInvalid(cert) ==
    IF cert.key_usage = None
    THEN ValidationResult("INVALID", <<"Key usage extension not found">>, FALSE)
    ELSE IF /\ cert.basic_constraints # None
            /\ cert.basic_constraints[1].ca
            /\ ~cert.key_usage[1].key_cert_sign
    THEN ValidationResult("INVALID",
             <<"CA certificate missing key_cert_sign usage">>, FALSE)
    ELSE ValidationResult("VALID", <<"Key usage valid">>, TRUE)

check_key_usage(cert) ==
    IF cert.key_usage = None
    THEN ValidationResult("WARNING", <<"Key usage extension not found">>, TRUE)
    ELSE IF /\ cert.basic_constraints # None
            /\ cert.basic_constraints[1].ca
            /\ ~cert.key_usage[1].key_cert_sign
    THEN ValidationResult("INVALID",
             <<"CA certificate missing key_cert_sign usage">>, FALSE)
    ELSE ValidationResult("VALID", <<"Key usage valid">>, TRUE)

check_basic_constraints(cert) ==
    IF cert.basic_constraints = None
    THEN ValidationResult("WARNING",
             <<"Basic constraints extension not found">>, TRUE)
    ELSE LET bc == cert.basic_constraints[1]
         IN  IF bc.ca
             THEN ValidationResult("VALID",
                      <<"Certificate is a CA certificate">> \o
                      (IF bc.path_length # None
                       THEN <<"Path length constraint: " \o
                              ToString(bc.path_length[1])>>
                       ELSE <<>>),
                      TRUE)
             ELSE ValidationResult("VALID",
                      <<"Certificate is not a CA certificate">>, TRUE)

(***************************************************************************)
(* CertificateValidator.validate_chain, one loop iteration per step.  v is *)
(* the frame of the call: pc is the control location, i the 0-based loop   *)
(* index of the structural and linkage loops, t the 1-based position in    *)
(* the trust store.  v.log records which checks were carried out:          *)
(* [op, i, ok] with op "structural", "name", "sig" (verify_signature on    *)
(* pair i), "anchor_name" or "anchor_sig" (trust-store entry i).           *)
(***************************************************************************)
(* validate_single; verified lists the verify_signature calls it made. *)
SingleOutcome(result, verified) == [result |-> result, verified |-> verified]

validate_single_AlwaysVerify(cert) ==
    LET bc_result == check_basic_constraints(cert)
        ku_result == check_key_usage(cert)
        messages  == bc_result.messages \o ku_result.messages
    IN  IF ~ku_result.is_valid
        THEN SingleOutcome(ValidationResult("INVALID", messages, FALSE), <<>>)
        ELSE IF verify_signature(cert, cert)
        THEN SingleOutcome(
                 ValidationResult("VALID",
                     Append(messages,
                            "Self-signed certificate with valid signature"),
                     TRUE),
                 << <<cert, cert>> >>)
        ELSE SingleOutcome(
                 ValidationResult("INVALID",
                     Append(messages,
                            "Self-signed certificate with INVALID signature"),
                     FALSE),
                 << <<cert, cert>> >>)

validate_single(cert) ==
    LET bc_result == check_basic_constraints(cert)
        ku_result == check_key_usage(cert)
        messages  == bc_result.messages \o ku_result.messages
    IN  IF ~ku_result.is_valid
        THEN SingleOutcome(ValidationResult("INVALID", messages, FALSE), <<>>)
        ELSE IF cert.subject = cert.issuer
        THEN IF verify_signature(cert, cert)
             THEN SingleOutcome(
                      ValidationResult("VALID",
                          Append(messages,
                                 "Self-signed certificate with valid signature"),
                          TRUE),
                      << <<cert, cert>> >>)
             ELSE SingleOutcome(
                      ValidationResult("INVALID",
                          Append(messages,
                                 "Self-signed certificate with INVALID signature"),
                          FALSE),
                      << <<cert, cert>> >>)
        ELSE SingleOutcome(ValidationResult("VALID", messages, TRUE), <<>>)

Event(op, i, ok) == [op |-> op, i |-> i, ok |-> ok]

Tagged(i, messages) ==
    [k \in 1..Len(messages) |-> "Cert " \o ToString(i) \o ": " \o messages[k]]

Finish(v, status, messages, log) ==
    [v EXCEPT !.pc = "done", !.messages = messages, !.log = log,
              !.result = Some(ValidationResult(status, messages,
                                               status = "VALID"))]

NewFrame(cert_chain, use_truststore, truststore) ==
    [pc |-> "structural", cert_chain |-> cert_chain,
     use_truststore |-> use_truststore, truststore |-> truststore,
     i |-> 0, t |-> 1, found |-> FALSE, messages |-> <<>>,
     log |-> <<>>, result |-> None]

IdleFrame == [NewFrame(<<>>, FALSE, <<>>) EXCEPT !.pc = "idle"]

EnterValidateChain_EmptyValid(cert_chain, use_truststore, truststore) ==
    LET v == NewFrame(cert_chain, use_truststore, truststore)
    IN  IF cert_chain = <<>>
        THEN Finish(v, "VALID", <<>>, <<>>)
        ELSE v

EnterValidateChain(cert_chain, use_truststore, truststore) ==
    LET v == NewFrame(cert_chain, use_truststore, truststore)
    IN  IF cert_chain = <<>>
        THEN Finish(v, "INVALID", <<"Empty certificate chain">>, <<>>)
        ELSE v

StructuralStep_ContinueOnInvalid(v) ==
    LET cert      == v.cert_chain[v.i + 1]
        bc_result == check_basic_constraints(cert)
        ku_result == check_key_usage(cert)
        messages  == v.messages \o Tagged(v.i, bc_result.messages)
                                \o Tagged(v.i, ku_result.messages)
        log       == Append(v.log, Event("structural", v.i, ku_result.is_valid))
    IN  [v EXCEPT !.messages = messages, !.log = log, !.i = @ + 1]

StructuralStep_ChecksValidity(v) ==
    LET cert      == v.cert_chain[v.i + 1]
        bc_result == check_basic_constraints(cert)
        ku_result == check_key_usage(cert)
        messages  == v.messages \o Tagged(v.i, bc_result.messages)
                                \o Tagged(v.i, ku_result.messages)
        in_window == cert.not_before <= 0 /\ 0 <= cert.not_after
        log       == Append(v.log, Event("structural", v.i,
                                         ku_result.is_valid /\ in_window))
    IN  IF ~ku_result.is_valid \/ ~in_window
        THEN Finish(v, "INVALID", messages, log)
        ELSE [v EXCEPT !.messages = messages, !.log = log, !.i = @ + 1]

StructuralStep_IssuerMustBeCA(v) ==
    LET cert      == v.cert_chain[v.i + 1]
        bc_result == check_basic_constraints(cert)
        ku_result == check_key_usage(cert)
        messages  == v.messages \o Tagged(v.i, bc_result.messages)
                                \o Tagged(v.i, ku_result.messages)
        is_ca     == /\ cert.basic_constraints # None
                     /\ cert.basic_constraints[1].ca
        ok        == ku_result.is_valid /\ (v.i = 0 \/ is_ca)
        log       == Append(v.log, Event("structural", v.i, ok))
    IN  IF ~ok
        THEN Finish(v, "INVALID", messages, log)
        ELSE [v EXCEPT !.messages = messages, !.log = log, !.i = @ + 1]

StructuralStep(v) ==
    LET cert      == v.cert_chain[v.i + 1]
        bc_result == check_basic_constraints(cert)
        ku_result == check_key_usage(cert)
        messages  == v.messages \o Tagged(v.i, bc_result.messages)
                                \o Tagged(v.i, ku_result.messages)
        log       == Append(v.log, Event("structural", v.i, ku_result.is_valid))
    IN  IF ~ku_result.is_valid
        THEN Finish(v, "INVALID", messages, log)
        ELSE [v EXCEPT !.messages = messages, !.log = log, !.i = @ + 1]

StructuralExitStep(v) == [v EXCEPT !.pc = "linkage", !.i = 0]

LinkageStep_VerifyFirst(v) ==
    LET cert      == v.cert_chain[v.i + 1]
        issuer    == v.cert_chain[v.i + 2]
        name_ok   == cert.issuer = issuer.subject
        sig_ok    == verify_signature(cert, issuer)
        log_sig   == Append(v.log, Event("sig", v.i, sig_ok))
        log_name  == Append(log_sig, Event("name", v.i, name_ok))
    IN  IF ~sig_ok
        THEN Finish(v, "INVALID",
                    Append(v.messages, "Cert " \o ToString(v.i) \o
                           ": Invalid signature from issuer"), log_sig)
        ELSE IF ~name_ok
        THEN Finish(v, "INVALID",
                    Append(v.messages, "Cert " \o ToString(v.i) \o
                           ": Issuer does not match next cert in chain"),
                    log_name)
        ELSE [v EXCEPT !.messages = Append(@, "Cert " \o ToString(v.i) \o
                                              ": Signature valid"),
                       !.log = log_name, !.i = @ + 1]

LinkageStep_NoSignatureCheck(v) ==
    LET cert      == v.cert_chain[v.i + 1]
        issuer    == v.cert_chain[v.i + 2]
        name_ok   == cert.issuer = issuer.subject
        log_name  == Append(v.log, Event("name", v.i, name_ok))
    IN  IF ~name_ok
        THEN Finish(v, "INVALID",
                    Append(v.messages, "Cert " \o ToString(v.i) \o
                           ": Issuer does not match next cert in chain"),
                    log_name)
        ELSE [v EXCEPT !.messages = Append(@, "Cert " \o ToString(v.i) \o
                                              ": Signature valid"),
                       !.log = Append(log_name, Event("sig", v.i, TRUE)),
                       !.i = @ + 1]

LinkageStep_SilentSuccess(v) ==
    LET cert      == v.cert_chain[v.i + 1]
        issuer    == v.cert_chain[v.i + 2]
        name_ok   == cert.issuer = issuer.subject
        sig_ok    == verify_signature(cert, issuer)
        log_name  == Append(v.log, Event("name", v.i, name_ok))
        log_sig   == Append(log_name, Event("sig", v.i, sig_ok))
    IN  IF ~name_ok
        THEN Finish(v, "INVALID",
                    Append(v.messages, "Cert " \o ToString(v.i) \o
                           ": Issuer does not match next cert in chain"),
                    log_name)
        ELSE IF ~sig_ok
        THEN Finish(v, "INVALID",
                    Append(v.messages, "Cert " \o ToString(v.i) \o
                           ": Invalid signature from issuer"), log_sig)
        ELSE [v EXCEPT !.log = log_sig, !.i = @ + 1]

LinkageStep(v) ==
    LET cert      == v.cert_chain[v.i + 1]
        issuer    == v.cert_chain[v.i + 2]
        name_ok   == cert.issuer = issuer.subject
        sig_ok    == verify_signature(cert, issuer)
        log_name  == Append(v.log, Event("name", v.i, name_ok))
        log_sig   == Append(log_name, Event("sig", v.i, sig_ok))
    IN  IF ~name_ok
        THEN Finish(v, "INVALID",
                    Append(v.messages, "Cert " \o ToString(v.i) \o
                           ": Issuer does not match next cert in chain"),
                    log_name)
        ELSE IF ~sig_ok
        THEN Finish(v, "INVALID",
                    Append(v.messages, "Cert " \o ToString(v.i) \o
                           ": Invalid signature from issuer"), log_sig)
        ELSE [v EXCEPT !.messages = Append(@, "Cert " \o ToString(v.i) \o
                                              ": Signature valid"),
                       !.log = log_sig, !.i = @ + 1]

LinkageExitStep_EmptyStoreChecked(v) ==
    IF v.use_truststore
    THEN [v EXCEPT !.pc = "trust", !.t = 1, !.found = FALSE]
    ELSE Finish(v, "VALID", v.messages, v.log)

LinkageExitStep(v) ==
    IF v.use_truststore /\ v.truststore # <<>>
    THEN [v EXCEPT !.pc = "trust", !.t = 1, !.found = FALSE]
    ELSE Finish(v, "VALID", v.messages, v.log)

TrustStep_NameOnly(v) ==
    LET root_cert    == v.cert_chain[Len(v.cert_chain)]
        trusted_cert == v.truststore[v.t]
        name_ok      == root_cert.subject = trusted_cert.subject
        log_name     == Append(v.log, Event("anchor_name", v.t, name_ok))
    IN  IF name_ok
        THEN [v EXCEPT !.found = TRUE, !.log = log_name,
                       !.messages = Append(@,
                           "Root certificate found in truststore")]
        ELSE [v EXCEPT !.log = log_name, !.t = @ + 1]

TrustStep_SelfSignedOnly(v) ==
    LET root_cert    == v.cert_chain[Len(v.cert_chain)]
        trusted_cert == v.truststore[v.t]
        name_ok      == root_cert.subject = trusted_cert.subject
        sig_ok       == /\ verify_signature(root_cert, trusted_cert)
                        /\ root_cert.subject = root_cert.issuer
        log_name     == Append(v.log, Event("anchor_name", v.t, name_ok))
        log_sig      == Append(log_name, Event("anchor_sig", v.t, sig_ok))
    IN  IF name_ok
        THEN IF sig_ok
             THEN [v EXCEPT !.found = TRUE, !.log = log_sig,
                            !.messages = Append(@,
                                "Root certificate found in truststore")]
             ELSE [v EXCEPT !.log = log_sig, !.t = @ + 1]
        ELSE [v EXCEPT !.log = log_name, !.t = @ + 1]

TrustStep(v) ==
    LET root_cert    == v.cert_chain[Len(v.cert_chain)]
        trusted_cert == v.truststore[v.t]
        name_ok      == root_cert.subject = trusted_cert.subject
        sig_ok       == verify_signature(root_cert, trusted_cert)
        log_name     == Append(v.log, Event("anchor_name", v.t, name_ok))
        log_sig      == Append(log_name, Event("anchor_sig", v.t, sig_ok))
    IN  IF name_ok
        THEN IF sig_ok
             THEN [v EXCEPT !.found = TRUE, !.log = log_sig,
                            !.messages = Append(@,
                                "Root certificate found in truststore")]
             ELSE [v EXCEPT !.log = log_sig, !.t = @ + 1]
        ELSE [v EXCEPT !.log = log_name, !.t = @ + 1]

TrustExitStep(v) ==
    IF ~v.found
    THEN Finish(v, "INVALID",
                Append(v.messages, "Root certificate not found in truststore"),
                v.log)
    ELSE Finish(v, "VALID", v.messages, v.log)

(* One step of validate_chain from any position of its frame. *)
ChainStep(v) ==
    CASE v.pc = "structural" ->
             IF v.i < Len(v.cert_chain) THEN StructuralStep(v)
             ELSE StructuralExitStep(v)
      [] v.pc = "linkage" ->
             IF v.i < Len(v.cert_chain) - 1 THEN LinkageStep(v)
             ELSE LinkageExitStep(v)
      [] v.pc = "trust" ->
             IF ~v.found /\ v.t <= Len(v.truststore) THEN TrustStep(v)
             ELSE TrustExitStep(v)
      [] OTHER -> v

(***************************************************************************)
(* Config.get_enabled_hosts and RemoteCertChecker.check_all_hosts.  A run  *)
(* is the loop state: index of the next host, results so far, and the      *)
(* exception that left the loop, if any.                                   *)
(***************************************************************************)
HostConfig(name, fqdn, port, enabled, warning_days) ==
    [name |-> name, fqdn |-> fqdn, port |-> port, enabled |-> enabled,
     warning_days |-> warning_days, client_cert |-> FALSE]

Config(timeout, hosts) == [settings |-> [timeout |-> timeout], hosts |-> hosts]

get_enabled_hosts_All(hosts) == hosts

RECURSIVE get_enabled_hosts(_)
get_enabled_hosts(hosts) ==
    IF hosts = <<>> THEN <<>>
    ELSE IF Head(hosts).enabled
    THEN <<Head(hosts)>> \o get_enabled_hosts(Tail(hosts))
    ELSE get_enabled_hosts(Tail(hosts))

NewRun == [k |-> 1, results |-> <<>>, raised |-> None]

CheckAllHostsStep_SkipFailed(run, host_config, timeout, net, now) ==
    LET result == check_host(host_config.fqdn, host_config.port,
                             host_config.warning_days,
                             Some(host_config.name), Some(timeout), net, now)
    IN  IF result.kind = "raise"
        THEN [run EXCEPT !.raised = Some(result.exc)]
        ELSE IF result.value.error # None
        THEN [run EXCEPT !.k = @ + 1]
        ELSE [run EXCEPT !.k = @ + 1,
                         !.results = Append(@, result.value)]

CheckAllHostsStep(run, host_config, timeout, net, now) ==
    LET result == check_host(host_config.fqdn, host_config.port,
                             host_config.warning_days,
                             Some(host_config.name), Some(timeout), net, now)
    IN  IF result.kind = "raise"
        THEN [run EXCEPT !.raised = Some(result.exc)]
        ELSE [run EXCEPT !.k = @ + 1,
                         !.results = Append(@, result.value)]

LoopRunning(run, enabled_hosts) ==
    run.raised = None /\ run.k <= Len(enabled_hosts)

(***************************************************************************)
(* Input universes.                                                        *)
(***************************************************************************)
S_ab == <<"a", ".", "b">>

S_bb == <<"b", ".", "b">>

S_AB == <<"A", ".", "B">>

S_wild_b == <<"*", ".", "b">>

S_web == <<"w", "e", "b">>

Times == (0 - MaxHours)..MaxHours

NotAfterSamples == {-120, 0, 7, 48, 240}

ExpCerts == {[BaseCert EXCEPT !.not_after = na] : na \in NotAfterSamples}

PatAlphabet == {"*", ".", "A", "b"}

HostAlphabet == {"a", "B", "."}

Patterns == UNION {[1..n -> PatAlphabet] : n \in 0..MaxPat}

Hostnames == UNION {[1..n -> HostAlphabet] : n \in 0..MaxHost}

Fqdns == {S_ab, S_bb}

Ports == {443, 8443}

HostNameArgs == {None, Some(<<>>), Some(S_web)}

TimeoutArgs == {None, Some(5)}

NowSamples == {-49, -1, 1}

HostCerts ==
    {[BaseCert EXCEPT !.subject = cn, !.issuer = <<S_web>>, !.san = san,
                      !.ext_malformed = bad] :
        cn \in {<<>>, <<S_AB>>, <<S_wild_b>>},
        san \in {<<>>, <<S_ab>>, <<S_web, S_bb>>},
        bad \in BOOLEAN}

Der(cert) == [empty |-> FALSE, wellformed |-> TRUE, cert |-> cert]

GarbledDer == [empty |-> FALSE, wellformed |-> FALSE, cert |-> BaseCert]

EmptyDer == [empty |-> TRUE, wellformed |-> FALSE, cert |-> BaseCert]

Net(connect, handshake, der) ==
    [connect |-> connect, handshake |-> handshake, der |-> der]

FailingNets ==
    {Net(Some(e), None, None) :
        e \in {Exc("timeout", "timed out"),
               Exc("gaierror", "[Errno -2] Name or service not known"),
               Exc("ConnectionRefusedError", "[Errno 111] Connection refused"),
               Exc("OSError", ""),
               Exc("UnicodeError", "label empty or too long")}}
    \cup {Net(None, Some(e), None) :
        e \in {Exc("SSLError", "[SSL] handshake failure"),
               Exc("timeout", "_ssl.c:1112: The handshake operation timed out")}}
    \cup {Net(None, None, Some(GarbledDer))}

EmptyNets == {Net(None, None, None), Net(None, None, Some(EmptyDer))}

CertNets == {Net(None, None, Some(Der(c))) : c \in HostCerts}

NetEnvs == FailingNets \cup EmptyNets \cup CertNets

S_ip == <<"1", ".", "2">>

VHFqdns == {S_ab, S_bb, S_ip}

VHCerts ==
    {[BaseCert EXCEPT !.subject = cn, !.san = san, !.san_ip = ip,
                      !.ext_malformed = bad] :
        cn \in {<<>>, << <<>> >>, <<S_AB>>, <<S_wild_b>>, <<S_bb, S_ab>>},
        san \in {<<>>, <<S_ab>>, <<S_web, S_bb>>, <<S_wild_b>>},
        ip \in {<<>>, <<S_ip>>},
        bad \in BOOLEAN}

S_db == <<"d", "b">>

S_int == <<"i">>

S_root == <<"r">>

S_x == <<"x">>

LeafCert ==
    [BaseCert EXCEPT !.subject = <<S_ab>>, !.issuer = <<S_int>>,
                     !.san = <<S_ab>>, !.key = Key("RSA", "kl"),
                     !.signer = "ki",
                     !.basic_constraints = Some(BasicConstraints(FALSE, None)),
                     !.key_usage = Some(KeyUsage(FALSE))]

LeafBadSig == [LeafCert EXCEPT !.signer = "kf"]

InterCert ==
    [BaseCert EXCEPT !.subject = <<S_int>>, !.issuer = <<S_root>>,
                     !.key = Key("EC", "ki"), !.signer = "kr",
                     !.basic_constraints =
                         Some(BasicConstraints(TRUE, Some(0))),
                     !.key_usage = Some(KeyUsage(TRUE))]

InterNoCertSign == [InterCert EXCEPT !.key_usage = Some(KeyUsage(FALSE))]

InterRenamed == [InterCert EXCEPT !.subject = <<S_x>>]

InterNotCA ==
    [InterCert EXCEPT !.basic_constraints = Some(BasicConstraints(FALSE, None)),
                      !.key_usage = Some(KeyUsage(FALSE))]

RootCert ==
    [BaseCert EXCEPT !.subject = <<S_root>>, !.issuer = <<S_root>>,
                     !.key = Key("RSA", "kr"), !.signer = "kr",
                     !.basic_constraints = Some(BasicConstraints(TRUE, None)),
                     !.key_usage = Some(KeyUsage(TRUE))]

CrossRoot ==
    [BaseCert EXCEPT !.subject = <<S_root>>, !.issuer = <<S_x>>,
                     !.key = Key("RSA", "kr"), !.signer = "kx"]

FakeRoot == [RootCert EXCEPT !.key = Key("RSA", "kf"), !.signer = "kf"]

RootX == [RootCert EXCEPT !.key = Key("DSA", "kx"), !.signer = "kx"]

OtherAnchor ==
    [RootCert EXCEPT !.subject = <<S_x>>, !.issuer = <<S_x>>,
                     !.key = Key("DSA", "kx"), !.signer = "kx"]

ChainCerts ==
    {LeafCert, LeafBadSig, InterCert, InterNoCertSign, InterRenamed,
     InterNotCA, RootCert, CrossRoot}

Anchors == {RootCert, FakeRoot, RootX, OtherAnchor}

Chains == UNION {[1..n -> ChainCerts] : n \in 0..MaxChain}

TrustStores == UNION {[1..n -> Anchors] : n \in 0..MaxTrust}

KeyIds == {"k" \o ToString(n) : n \in 1..MaxKeys}

SigCerts ==
    {[BaseCert EXCEPT !.signer = s, !.sig_hash = h] :
        s \in KeyIds, h \in {"sha256", "none", "unknown"}}

SigIssuers ==
    {[BaseCert EXCEPT !.key = Key(alg, id)] :
        alg \in {"RSA", "EC", "DSA", "Ed25519", "Unsupported"},
        id \in KeyIds}

SingleCerts ==
    {[BaseCert EXCEPT !.subject = <<s>>, !.issuer = <<i>>,
                      !.key = Key(alg, "k1"), !.signer = sg,
                      !.basic_constraints = bc, !.key_usage = ku] :
        s \in {S_root, S_x}, i \in {S_root, S_x},
        alg \in {"RSA", "Ed25519"}, sg \in {"k1", "k2"},
        bc \in {None, Some(BasicConstraints(TRUE, None)),
                Some(BasicConstraints(FALSE, None))},
        ku \in {None, Some(KeyUsage(TRUE)), Some(KeyUsage(FALSE))}}

MaxRows == 3

CsvNets ==
    {Net(Some(Exc("timeout", "timed out")), None, None),
     Net(None, None, None)}
    \cup {Net(None, None,
              Some(Der([BaseCert EXCEPT !.subject = cn, !.issuer = <<S_web>>,
                                        !.san = <<S_ab>>]))) :
             cn \in {<<>>, <<S_AB>>}}

CsvResults ==
    {check_host(S_ab, 443, 1, host_name, None, net, -1).value :
        host_name \in {None, Some(S_web)}, net \in CsvNets}

ValidWindow == <<-1000, 1000>>

ExpiredWindow == <<-1000, -500>>

FutureWindow == <<500, 1000>>

SetWindow(cert, window) ==
    [cert EXCEPT !.not_before = window[1], !.not_after = window[2]]

SetWindows(certs, windows) ==
    [k \in 1..Len(certs) |-> SetWindow(certs[k], windows[k])]

WinCerts == {LeafCert, InterCert, RootCert}

WinChains ==
    UNION {[1..n -> {SetWindow(c, ValidWindow) : c \in WinCerts}] :
              n \in 0..MaxChain}

WinStores == {<<>>, <<SetWindow(RootCert, ValidWindow)>>, <<FakeRoot, RootCert>>}

HostUniverse ==
    {HostConfig(S_web, S_ab, 443, TRUE, 1),
     HostConfig(<<>>, S_bb, 8443, TRUE, 0),
     HostConfig(S_db, S_ab, 8443, FALSE, 1),
     HostConfig(S_db, S_bb, 443, TRUE, 2)}

Configs ==
    {Config(5, hosts) :
        hosts \in UNION {[1..n -> HostUniverse] : n \in 0..MaxHosts}}

BatchCertNets ==
    {Net(None, None, Some(Der([BaseCert EXCEPT !.subject = <<S_AB>>,
                                               !.issuer = <<S_web>>]))),
     Net(None, None, Some(Der([BaseCert EXCEPT !.issuer = <<S_web>>,
                                               !.san = <<S_wild_b>>,
                                               !.not_after = 48])))}

BatchFailingNets ==
    {Net(Some(Exc("timeout", "timed out")), None, None),
     Net(Some(Exc("gaierror", "[Errno -2] Name or service not known")),
         None, None),
     Net(None, None, Some(GarbledDer))}

BatchNets == BatchCertNets \cup BatchFailingNets

BatchNow == -1

(***************************************************************************)
(* State machine.  A behaviour is one invocation: each call variable holds *)
(* the call of the operation with its inputs and its outcome, None before  *)
(* the call.                                                               *)
(***************************************************************************)
Init ==
    /\ expCall = None
    /\ matchCall = None
    /\ hostCall = None
    /\ batch = [pc |-> "idle", config |-> Config(SelfTimeout, <<>>),
                enabled_hosts |-> <<>>, run |-> NewRun]
    /\ iso = [pc |-> "idle", config |-> Config(SelfTimeout, <<>>),
              enabled_hosts |-> <<>>, at |-> 0,
              runA |-> NewRun, runB |-> NewRun]
    /\ vc = IdleFrame
    /\ sched = [pc |-> "idle", config |-> Config(SelfTimeout, <<>>),
                enabled_hosts |-> <<>>, run |-> NewRun, inflight |-> None]
    /\ vhCall = None
    /\ sigCall = None
    /\ vsCall = None
    /\ fetch = IdleFetch
    /\ csvCall = None
    /\ watch = None
    /\ win = None

CheckExpiration ==
    /\ expCall = None
    /\ \E cert \in ExpCerts, warning_days \in 0..MaxWarnDays, now \in Times :
          expCall' = Some([cert |-> cert, warning_days |-> warning_days,
                           now |-> now,
                           info |-> check_expiration(cert, warning_days, now)])
    /\ UNCHANGED <<matchCall, hostCall, batch, iso, vc, sched, vhCall, sigCall, vsCall, fetch, csvCall, watch, win>>

MatchHostname ==
    /\ matchCall = None
    /\ \E pattern \in Patterns, hostname \in Hostnames :
          matchCall' = Some([pattern |-> pattern, hostname |-> hostname,
                             result |-> match_hostname(pattern, hostname)])
    /\ UNCHANGED <<expCall, hostCall, batch, iso, vc, sched, vhCall, sigCall, vsCall, fetch, csvCall, watch, win>>

CheckHost ==
    /\ hostCall = None
    /\ \E fqdn \in Fqdns, port \in Ports, warning_days \in 0..MaxWarnDays,
           host_name \in HostNameArgs, timeout \in TimeoutArgs,
           net \in NetEnvs, now \in NowSamples :
          hostCall' = Some([fqdn |-> fqdn, port |-> port,
                            warning_days |-> warning_days,
                            host_name |-> host_name, timeout |-> timeout,
                            net |-> net, now |-> now,
                            outcome |-> check_host(fqdn, port, warning_days,
                                                   host_name, timeout,
                                                   net, now)])
    /\ UNCHANGED <<expCall, matchCall, batch, iso, vc, sched, vhCall, sigCall, vsCall, fetch, csvCall, watch, win>>

VerifyHostname ==
    /\ vhCall = None
    /\ \E cert \in VHCerts, fqdn \in VHFqdns :
          vhCall' = Some([cert |-> cert, fqdn |-> fqdn,
                          outcome |-> verify_hostname(cert, fqdn)])
    /\ UNCHANGED <<expCall, matchCall, hostCall, batch, iso, vc, sched, sigCall, vsCall, fetch, csvCall, watch, win>>

FetchStart ==
    /\ fetch.pc = "idle"
    /\ \E fqdn \in Fqdns, port \in Ports, timeout \in TimeoutArgs,
           net \in NetEnvs :
          fetch' = NewFetch(fqdn, port, timeout, net)
    /\ UNCHANGED <<expCall, matchCall, hostCall, batch, iso, vc, sched, vhCall, sigCall, vsCall, csvCall, watch, win>>

FetchConnect ==
    /\ fetch.pc = "connect"
    /\ fetch' = ConnectStep(fetch)
    /\ UNCHANGED <<expCall, matchCall, hostCall, batch, iso, vc, sched, vhCall, sigCall, vsCall, csvCall, watch, win>>

FetchWrap ==
    /\ fetch.pc = "wrap"
    /\ fetch' = WrapStep(fetch)
    /\ UNCHANGED <<expCall, matchCall, hostCall, batch, iso, vc, sched, vhCall, sigCall, vsCall, csvCall, watch, win>>

FetchRead ==
    /\ fetch.pc = "read"
    /\ fetch' = ReadStep(fetch)
    /\ UNCHANGED <<expCall, matchCall, hostCall, batch, iso, vc, sched, vhCall, sigCall, vsCall, csvCall, watch, win>>

ExportCsv ==
    /\ csvCall = None
    /\ \E n \in 0..MaxRows :
          \E results \in [1..n -> CsvResults] :
              csvCall' = Some([results |-> results,
                               text |-> export_csv(results)])
    /\ UNCHANGED <<expCall, matchCall, hostCall, batch, iso, vc, sched, vhCall, sigCall, vsCall, fetch, watch, win>>

(* check_expiration called again and again on one certificate with one    *)
(* threshold while the clock read by datetime.now advances.               *)
WatchStart ==
    /\ watch = None
    /\ \E cert \in ExpCerts, warning_days \in 0..MaxWarnDays,
           now \in {0 - MaxHours, 0} :
          watch' = Some([cert |-> cert, warning_days |-> warning_days,
                         now |-> now,
                         first |-> check_expiration(cert, warning_days, now),
                         info |-> check_expiration(cert, warning_days, now)])
    /\ UNCHANGED <<expCall, matchCall, hostCall, batch, iso, vc, sched, vhCall, sigCall, vsCall, fetch, csvCall, win>>

WatchAdvance ==
    /\ watch # None
    /\ \E dt \in {1, HoursPerDay} :
          /\ watch[1].now + dt <= MaxHours
          /\ watch' = Some([watch[1] EXCEPT
                               !.now = @ + dt,
                               !.info = check_expiration(watch[1].cert,
                                            watch[1].warning_days,
                                            watch[1].now + dt)])
    /\ UNCHANGED <<expCall, matchCall, hostCall, batch, iso, vc, sched, vhCall, sigCall, vsCall, fetch, csvCall, win>>

(* Two validations side by side on chains and trust stores that differ    *)
(* only in the validity windows of their certificates.                     *)
WinStart ==
    /\ win = None
    /\ \E cert_chain \in WinChains, use_truststore \in BOOLEAN,
           truststore \in WinStores, anchor_window \in {ValidWindow, ExpiredWindow} :
          \E windows \in [1..Len(cert_chain) -> {ExpiredWindow, FutureWindow}] :
              win' = Some([kind |-> "chain",
                           a |-> EnterValidateChain(cert_chain, use_truststore,
                                                    truststore),
                           b |-> EnterValidateChain(
                                     SetWindows(cert_chain, windows),
                                     use_truststore,
                                     [k \in 1..Len(truststore) |->
                                         SetWindow(truststore[k], anchor_window)]),
                           ra |-> None, rb |-> None])
    /\ UNCHANGED <<expCall, matchCall, hostCall, batch, iso, vc, sched, vhCall, sigCall, vsCall, fetch, csvCall, watch>>

WinChainStep ==
    /\ win # None
    /\ win[1].kind = "chain"
    /\ win[1].a.pc # "done" \/ win[1].b.pc # "done"
    /\ win' = Some([win[1] EXCEPT !.a = ChainStep(@), !.b = ChainStep(@)])
    /\ UNCHANGED <<expCall, matchCall, hostCall, batch, iso, vc, sched, vhCall, sigCall, vsCall, fetch, csvCall, watch>>

WinSingle ==
    /\ win = None
    /\ \E cert \in SingleCerts, window \in {ExpiredWindow, FutureWindow} :
          win' = Some([kind |-> "single", a |-> IdleFrame, b |-> IdleFrame,
                       ra |-> Some(validate_single(cert)),
                       rb |-> Some(validate_single(SetWindow(cert, window)))])
    /\ UNCHANGED <<expCall, matchCall, hostCall, batch, iso, vc, sched, vhCall, sigCall, vsCall, fetch, csvCall, watch>>

VerifySignature ==
    /\ sigCall = None
    /\ \E cert \in SigCerts, issuer_cert \in SigIssuers :
          sigCall' = Some([cert |-> cert, issuer_cert |-> issuer_cert,
                           body |-> VerifySignatureBody(cert, issuer_cert),
                           outcome |-> VerifySignatureCall(cert, issuer_cert)])
    /\ UNCHANGED <<expCall, matchCall, hostCall, batch, iso, vc, sched, vhCall, vsCall, fetch, csvCall, watch, win>>

ValidateSingle ==
    /\ vsCall = None
    /\ \E cert \in SingleCerts :
          vsCall' = Some([cert |-> cert, outcome |-> validate_single(cert)])
    /\ UNCHANGED <<expCall, matchCall, hostCall, batch, iso, vc, sched, vhCall, sigCall, fetch, csvCall, watch, win>>

(* check_all_hosts: entry, one loop iteration per step, return. *)
CheckAllHostsStart ==
    /\ batch.pc = "idle"
    /\ \E config \in Configs :
          batch' = [pc |-> "loop", config |-> config,
                    enabled_hosts |-> get_enabled_hosts(config.hosts),
                    run |-> NewRun]
    /\ UNCHANGED <<expCall, matchCall, hostCall, iso, vc, sched, vhCall, sigCall, vsCall, fetch, csvCall, watch, win>>

CheckAllHostsIter ==
    /\ batch.pc = "loop"
    /\ LoopRunning(batch.run, batch.enabled_hosts)
    /\ \E net \in BatchNets :
          batch' = [batch EXCEPT !.run =
                       CheckAllHostsStep(batch.run,
                                         batch.enabled_hosts[batch.run.k],
                                         batch.config.settings.timeout,
                                         net, BatchNow)]
    /\ UNCHANGED <<expCall, matchCall, hostCall, iso, vc, sched, vhCall, sigCall, vsCall, fetch, csvCall, watch, win>>

CheckAllHostsReturn ==
    /\ batch.pc = "loop"
    /\ ~LoopRunning(batch.run, batch.enabled_hosts)
    /\ batch' = [batch EXCEPT !.pc =
                     IF batch.run.raised = None THEN "done" ELSE "raised"]
    /\ UNCHANGED <<expCall, matchCall, hostCall, iso, vc, sched, vhCall, sigCall, vsCall, fetch, csvCall, watch, win>>

(* check_all_hosts with the blocking call made visible: BeginCheckAt(j) is *)
(* the loop calling check_host for the enabled host at position j, which   *)
(* blocks in the connection attempt; EndCheck is that call returning.      *)
SchedStart ==
    /\ sched.pc = "idle"
    /\ \E config \in Configs :
          sched' = [pc |-> "loop", config |-> config,
                    enabled_hosts |-> get_enabled_hosts(config.hosts),
                    run |-> NewRun, inflight |-> None]
    /\ UNCHANGED <<expCall, matchCall, hostCall, batch, iso, vc, vhCall, sigCall, vsCall, fetch, csvCall, watch, win>>

BeginCheckAt(j) ==
    /\ sched.pc = "loop"
    /\ sched.inflight = None
    /\ LoopRunning(sched.run, sched.enabled_hosts)
    /\ j = sched.run.k
    /\ \E net \in BatchNets :
          sched' = [sched EXCEPT !.inflight = Some([k |-> j, net |-> net])]
    /\ UNCHANGED <<expCall, matchCall, hostCall, batch, iso, vc, vhCall, sigCall, vsCall, fetch, csvCall, watch, win>>

BeginCheck == \E j \in 1..Len(sched.enabled_hosts) : BeginCheckAt(j)

EndCheck ==
    /\ sched.pc = "loop"
    /\ sched.inflight # None
    /\ sched' = [sched EXCEPT
                    !.run = CheckAllHostsStep(
                                sched.run,
                                sched.enabled_hosts[sched.inflight[1].k],
                                sched.config.settings.timeout,
                                sched.inflight[1].net, BatchNow),
                    !.inflight = None]
    /\ UNCHANGED <<expCall, matchCall, hostCall, batch, iso, vc, vhCall, sigCall, vsCall, fetch, csvCall, watch, win>>

SchedReturn ==
    /\ sched.pc = "loop"
    /\ sched.inflight = None
    /\ ~LoopRunning(sched.run, sched.enabled_hosts)
    /\ sched' = [sched EXCEPT !.pc =
                     IF sched.run.raised = None THEN "done" ELSE "raised"]
    /\ UNCHANGED <<expCall, matchCall, hostCall, batch, iso, vc, vhCall, sigCall, vsCall, fetch, csvCall, watch, win>>

(* Two runs of check_all_hosts over the same configuration and the same    *)
(* endpoint behaviours, except at position iso.at, where the fetch yields  *)
(* a certificate in run A and fails in run B.                              *)
IsoStart ==
    /\ iso.pc = "idle"
    /\ \E config \in Configs :
          LET enabled_hosts == get_enabled_hosts(config.hosts)
          IN  \E at \in 1..Len(enabled_hosts) :
                iso' = [pc |-> "loop", config |-> config,
                        enabled_hosts |-> enabled_hosts, at |-> at,
                        runA |-> NewRun, runB |-> NewRun]
    /\ UNCHANGED <<expCall, matchCall, hostCall, batch, vc, sched, vhCall, sigCall, vsCall, fetch, csvCall, watch, win>>

IsoStepRun(run, net) ==
    IF LoopRunning(run, iso.enabled_hosts)
    THEN CheckAllHostsStep(run, iso.enabled_hosts[run.k],
                           iso.config.settings.timeout, net, BatchNow)
    ELSE run

IsoPosition ==
    IF LoopRunning(iso.runA, iso.enabled_hosts) THEN iso.runA.k
    ELSE iso.runB.k

IsoBehaviours ==
    IF IsoPosition = iso.at
    THEN BatchCertNets \X BatchFailingNets
    ELSE {<<net, net>> : net \in BatchNets}

IsoIter ==
    /\ iso.pc = "loop"
    /\ \/ LoopRunning(iso.runA, iso.enabled_hosts)
       \/ LoopRunning(iso.runB, iso.enabled_hosts)
    /\ \E nets \in IsoBehaviours :
          iso' = [iso EXCEPT !.runA = IsoStepRun(iso.runA, nets[1]),
                             !.runB = IsoStepRun(iso.runB, nets[2])]
    /\ UNCHANGED <<expCall, matchCall, hostCall, batch, vc, sched, vhCall, sigCall, vsCall, fetch, csvCall, watch, win>>

IsoReturn ==
    /\ iso.pc = "loop"
    /\ ~LoopRunning(iso.runA, iso.enabled_hosts)
    /\ ~LoopRunning(iso.runB, iso.enabled_hosts)
    /\ iso' = [iso EXCEPT !.pc = "done"]
    /\ UNCHANGED <<expCall, matchCall, hostCall, batch, vc, sched, vhCall, sigCall, vsCall, fetch, csvCall, watch, win>>

(* validate_chain: entry with the empty-chain guard, then the structural,  *)
(* linkage and trust-anchor loops, one iteration or loop exit per step.    *)
ValidateChainStart ==
    /\ vc.pc = "idle"
    /\ \E cert_chain \in Chains, use_truststore \in BOOLEAN,
           truststore \in TrustStores :
          vc' = EnterValidateChain(cert_chain, use_truststore, truststore)
    /\ UNCHANGED <<expCall, matchCall, hostCall, batch, iso, sched, vhCall, sigCall, vsCall, fetch, csvCall, watch, win>>

StructuralIter ==
    /\ vc.pc = "structural"
    /\ vc.i < Len(vc.cert_chain)
    /\ vc' = StructuralStep(vc)
    /\ UNCHANGED <<expCall, matchCall, hostCall, batch, iso, sched, vhCall, sigCall, vsCall, fetch, csvCall, watch, win>>

StructuralExit ==
    /\ vc.pc = "structural"
    /\ vc.i >= Len(vc.cert_chain)
    /\ vc' = StructuralExitStep(vc)
    /\ UNCHANGED <<expCall, matchCall, hostCall, batch, iso, sched, vhCall, sigCall, vsCall, fetch, csvCall, watch, win>>

LinkageIter ==
    /\ vc.pc = "linkage"
    /\ vc.i < Len(vc.cert_chain) - 1
    /\ vc' = LinkageStep(vc)
    /\ UNCHANGED <<expCall, matchCall, hostCall, batch, iso, sched, vhCall, sigCall, vsCall, fetch, csvCall, watch, win>>

LinkageExit ==
    /\ vc.pc = "linkage"
    /\ vc.i >= Len(vc.cert_chain) - 1
    /\ vc' = LinkageExitStep(vc)
    /\ UNCHANGED <<expCall, matchCall, hostCall, batch, iso, sched, vhCall, sigCall, vsCall, fetch, csvCall, watch, win>>

TrustIter ==
    /\ vc.pc = "trust"
    /\ ~vc.found
    /\ vc.t <= Len(vc.truststore)
    /\ vc' = TrustStep(vc)
    /\ UNCHANGED <<expCall, matchCall, hostCall, batch, iso, sched, vhCall, sigCall, vsCall, fetch, csvCall, watch, win>>

TrustExit ==
    /\ vc.pc = "trust"
    /\ vc.found \/ vc.t > Len(vc.truststore)
    /\ vc' = TrustExitStep(vc)
    /\ UNCHANGED <<expCall, matchCall, hostCall, batch, iso, sched, vhCall, sigCall, vsCall, fetch, csvCall, watch, win>>

NextExp == CheckExpiration

SpecExp == Init /\ [][NextExp]_vars

NextMatch == MatchHostname

SpecMatch == Init /\ [][NextMatch]_vars

NextHost == CheckHost

SpecHost == Init /\ [][NextHost]_vars

NextAll == CheckAllHostsStart \/ CheckAllHostsIter \/ CheckAllHostsReturn

SpecAll == Init /\ [][NextAll]_vars

NextIso == IsoStart \/ IsoIter \/ IsoReturn

SpecIso == Init /\ [][NextIso]_vars

NextSched == SchedStart \/ BeginCheck \/ EndCheck \/ SchedReturn

SpecSched == Init /\ [][NextSched]_vars

NextVH == VerifyHostname

SpecVH == Init /\ [][NextVH]_vars

NextFetch == FetchStart \/ FetchConnect \/ FetchWrap \/ FetchRead

SpecFetch == Init /\ [][NextFetch]_vars

NextCsv == ExportCsv

SpecCsv == Init /\ [][NextCsv]_vars

NextWatch == WatchStart \/ WatchAdvance

SpecWatch == Init /\ [][NextWatch]_vars

NextWin == WinStart \/ WinChainStep \/ WinSingle

SpecWin == Init /\ [][NextWin]_vars

NextSig == VerifySignature

SpecSig == Init /\ [][NextSig]_vars

NextSingle == ValidateSingle

SpecSingle == Init /\ [][NextSingle]_vars

NextChain ==
    \/ ValidateChainStart
    \/ StructuralIter
    \/ StructuralExit
    \/ LinkageIter
    \/ LinkageExit
    \/ TrustIter
    \/ TrustExit

SpecChain == Init /\ [][NextChain]_vars

(***************************************************************************)
(* Properties of check_expiration (SpecExp).                               *)
(***************************************************************************)
StrEmpty(fragments) == \A k \in 1..Len(fragments) : fragments[k] = ""

(* C2: check_expiration yields EXPIRED iff now > not_after, WARNING iff    *)
(* not expired and days_remaining < warning_days, VALID otherwise; exactly *)
(* one of the three holds and is_expired, is_warning are never both true.  *)
C2_ExpirationPartition ==
    expCall # None =>
        LET c       == expCall[1]
            info    == c.info
            expired == c.now > c.cert.not_after
            warning == ~expired /\ info.days_remaining < c.warning_days
        IN  /\ info.status \in {"EXPIRED", "WARNING", "VALID"}
            /\ (info.status = "EXPIRED") <=> expired
            /\ (info.status = "WARNING") <=> warning
            /\ (info.status = "VALID") <=> (~expired /\ ~warning)
            /\ info.is_expired <=> expired
            /\ info.is_warning <=> warning
            /\ ~(info.is_expired /\ info.is_warning)

C2_Witness ==
    /\ expCall # None
    /\ expCall[1].info.status = "WARNING"
    /\ expCall[1].now = expCall[1].cert.not_after
    /\ expCall[1].warning_days > 0

(***************************************************************************)
(* Properties of _match_hostname (SpecMatch).                              *)
(***************************************************************************)
OneLabelThenRest(pattern, hostname) ==
    LET p      == Lower(pattern)
        h      == Lower(hostname)
        suffix == SubSeq(p, 2, Len(p))
        n      == Len(h) - Len(suffix)
    IN  /\ n >= 1
        /\ SubSeq(h, n + 1, Len(h)) = suffix
        /\ \A k \in 1..n : h[k] # "."

(* C6: for a pattern "*.<rest>", _match_hostname returns true only if the  *)
(* hostname is exactly one non-empty leftmost label followed by ".<rest>", *)
(* compared case-insensitively (never zero labels, an empty leftmost label *)
(* or several labels).                                                     *)
C6_WildcardOneNonEmptyLabel ==
    matchCall # None =>
        LET c == matchCall[1]
        IN  (StartsWith(c.pattern, <<"*", ".">>) /\ c.result)
                => OneLabelThenRest(c.pattern, c.hostname)

(***************************************************************************)
(* Properties of check_host (SpecHost).                                    *)
(***************************************************************************)
Fetched(c) == get_certificate_chain(c.net)

CertificateReceived(c) ==
    Fetched(c).kind = "return" /\ Len(Fetched(c).value) > 0

(* C1: in check_host, when a certificate is received and verify_hostname   *)
(* returns false the overall status is ERROR whatever the expiration       *)
(* status; when verify_hostname returns true it equals expiration.status.  *)
C1_HostnameMismatchForcesError ==
    hostCall # None =>
        LET c  == hostCall[1]
            hv == verify_hostname(Fetched(c).value[1], c.fqdn)
            r  == c.outcome.value
        IN  (CertificateReceived(c) /\ hv.kind = "return") =>
                /\ c.outcome.kind = "return"
                /\ r.hostname_valid = Some(hv.value)
                /\ r.expiration # None
                /\ ~hv.value => r.status = "ERROR"
                /\ hv.value => r.status = r.expiration[1].status

C1_Witness ==
    /\ hostCall # None
    /\ hostCall[1].outcome.kind = "return"
    /\ hostCall[1].outcome.value.hostname_valid = Some(FALSE)
    /\ hostCall[1].outcome.value.expiration # None
    /\ hostCall[1].outcome.value.expiration[1].status = "EXPIRED"
    /\ hostCall[1].outcome.value.status = "ERROR"

(* C7: check_host never raises for a failure of the fetch step: it returns *)
(* a result with status ERROR, a non-empty error string, and certificate,  *)
(* certificate_chain, expiration and hostname_valid all absent.            *)
C7_FetchFailureIsErrorResult ==
    hostCall # None =>
        LET c == hostCall[1]
            r == c.outcome.value
        IN  ~CertificateReceived(c) =>
                /\ c.outcome.kind = "return"
                /\ r.status = "ERROR"
                /\ r.error # None
                /\ ~StrEmpty(r.error[1])
                /\ r.certificate = None
                /\ r.certificate_chain = None
                /\ r.expiration = None
                /\ r.hostname_valid = None

C7_Witness ==
    /\ hostCall # None
    /\ hostCall[1].net.der = Some(GarbledDer)
    /\ hostCall[1].outcome.kind = "return"
    /\ hostCall[1].outcome.value.error # None
    /\ hostCall[1].outcome.value.error[1][1] = "Unexpected error: "

(* C8: every HostCheckResult returned by check_host has either error       *)
(* populated with certificate and expiration absent, or certificate and    *)
(* expiration populated with error absent; never both, never neither.      *)
C8_ErrorXorCertificate ==
    (hostCall # None /\ hostCall[1].outcome.kind = "return") =>
        LET r == hostCall[1].outcome.value
            a == r.error # None /\ r.certificate = None
                     /\ r.expiration = None
            b == r.certificate # None /\ r.expiration # None
                     /\ r.error = None
        IN  (a \/ b) /\ ~(a /\ b)

C8_Witness ==
    /\ hostCall # None
    /\ hostCall[1].outcome.kind = "return"
    /\ hostCall[1].outcome.value.certificate # None
    /\ hostCall[1].outcome.value.status = "ERROR"
    /\ hostCall[1].outcome.value.error = None

(***************************************************************************)
(* Properties of check_all_hosts (SpecAll, SpecIso).                       *)
(***************************************************************************)
IsEnabled(host) == host.enabled

EnabledOf(config) == SelectSeq(config.hosts, IsEnabled)

ReportedName(host) == IF host.name = <<>> THEN host.fqdn ELSE host.name

(* C9 as stated: check_all_hosts returns exactly one result per enabled    *)
(* host and none for disabled hosts, in configuration order, and the k-th  *)
(* result carries the name, fqdn and port of the k-th enabled host.        *)
C9_Original ==
    /\ batch.pc # "raised"
    /\ batch.pc = "done" =>
          LET en == EnabledOf(batch.config)
              rs == batch.run.results
          IN  /\ Len(rs) = Len(en)
              /\ \A k \in 1..Len(en) :
                    /\ rs[k].host_name = en[k].name
                    /\ rs[k].fqdn = en[k].fqdn
                    /\ rs[k].port = en[k].port

(* C9 amended: one result per enabled host and none for disabled hosts, in *)
(* configuration order; the k-th result carries the fqdn and port of the   *)
(* k-th enabled host, and as host_name its name, or its fqdn when the name *)
(* is the empty string.                                                    *)
C9_OneResultPerEnabledHost ==
    /\ batch.pc # "raised"
    /\ batch.pc = "done" =>
          LET en == EnabledOf(batch.config)
              rs == batch.run.results
          IN  /\ Len(rs) = Len(en)
              /\ \A k \in 1..Len(en) :
                    /\ rs[k].host_name = ReportedName(en[k])
                    /\ rs[k].fqdn = en[k].fqdn
                    /\ rs[k].port = en[k].port

C9_Witness ==
    /\ batch.pc = "done"
    /\ Len(batch.config.hosts) = 3
    /\ ~batch.config.hosts[2].enabled
    /\ batch.config.hosts[1].enabled /\ batch.config.hosts[3].enabled
    /\ batch.config.hosts[1].name = <<>>
    /\ batch.config.hosts[1].fqdn # batch.config.hosts[3].fqdn
    /\ Len(batch.run.results) = 2
    /\ batch.run.results[1].error # None
    /\ batch.run.results[2].certificate # None

(* C10: two runs of check_all_hosts that differ only in that the check of  *)
(* the host at position i fails in one of them give the same result at     *)
(* every position j # i, and no failure escapes as an exception.           *)
C10_HostIsolation ==
    /\ iso.runA.raised = None /\ iso.runB.raised = None
    /\ iso.pc = "done" =>
          /\ Len(iso.runA.results) = Len(iso.enabled_hosts)
          /\ Len(iso.runB.results) = Len(iso.enabled_hosts)
          /\ \A j \in 1..Len(iso.enabled_hosts) :
                j # iso.at => iso.runA.results[j] = iso.runB.results[j]

C10_Witness ==
    /\ iso.pc = "done"
    /\ Len(iso.enabled_hosts) = 3
    /\ iso.at = 2
    /\ iso.runA.results[2].certificate # None
    /\ iso.runB.results[2].error # None
    /\ iso.runA.results[1].error # None
    /\ iso.runB.results[3].certificate # None
    /\ iso.runA.results[3] = iso.runB.results[3]

(***************************************************************************)
(* Properties of validate_chain (SpecChain).                               *)
(***************************************************************************)
ChainLen == Len(vc.cert_chain)

LogHas(op, i, ok) == \E p \in 1..Len(vc.log) : vc.log[p] = Event(op, i, ok)

PairNamesLink(i) ==
    vc.cert_chain[i + 1].issuer = vc.cert_chain[i + 2].subject

PairSignatureGood(i) ==
    vc.cert_chain[i + 1].signer = vc.cert_chain[i + 2].key.id

PairBad(i) == ~PairNamesLink(i) \/ ~verify_signature(vc.cert_chain[i + 1], vc.cert_chain[i + 2])

StructuralAndLinkagePassed ==
    /\ ChainLen > 0
    /\ \A i \in 0..(ChainLen - 1) : LogHas("structural", i, TRUE)
    /\ \A i \in 0..(ChainLen - 2) : LogHas("name", i, TRUE) /\ LogHas("sig", i, TRUE)

Anchored ==
    \E t \in 1..Len(vc.truststore) :
        /\ vc.truststore[t].subject = vc.cert_chain[ChainLen].subject
        /\ verify_signature(vc.cert_chain[ChainLen], vc.truststore[t])

(* C3: when the trust-anchor pass runs (use_truststore and a non-empty     *)
(* trust store) on a chain that passed the structural and linkage passes,  *)
(* the result is VALID iff some trust-store certificate has the subject of *)
(* the last chain element and a key that verifies its signature, whatever  *)
(* the order of the store; otherwise it is INVALID with the message        *)
(* "Root certificate not found in truststore", also on a mere name match.  *)
C3_TrustAnchorByNameAndSignature ==
    (/\ vc.pc = "done"
     /\ vc.use_truststore /\ vc.truststore # <<>>
     /\ StructuralAndLinkagePassed) =>
        LET r == vc.result[1]
        IN  /\ r.is_valid <=> Anchored
            /\ r.status = IF Anchored THEN "VALID" ELSE "INVALID"
            /\ ~Anchored =>
                  r.messages[Len(r.messages)] =
                      "Root certificate not found in truststore"

C3_Witness ==
    /\ vc.pc = "done"
    /\ ChainLen = 2
    /\ StructuralAndLinkagePassed
    /\ vc.use_truststore
    /\ vc.truststore = <<FakeRoot, RootCert>>
    /\ LogHas("anchor_sig", 1, FALSE)
    /\ LogHas("anchor_sig", 2, TRUE)
    /\ vc.result[1].status = "VALID"

(* C4: whenever validate_chain returns VALID, every adjacent pair has      *)
(* chain[i].issuer == chain[i+1].subject and verify_signature returned     *)
(* true for it (the signature is one chain[i+1]'s key produced).           *)
C4_ValidChainIsLinked ==
    (vc.pc = "done" /\ vc.result[1].is_valid) =>
        \A i \in 0..(ChainLen - 2) :
            /\ PairNamesLink(i)
            /\ LogHas("sig", i, TRUE)
            /\ PairSignatureGood(i)

C4_Witness ==
    /\ vc.pc = "done"
    /\ vc.result[1].is_valid
    /\ vc.result[1].status = "VALID"
    /\ ChainLen = 3
    /\ LogHas("sig", 0, TRUE) /\ LogHas("sig", 1, TRUE)

NameEventsBefore(p) ==
    Cardinality({q \in 1..(p - 1) : vc.log[q].op = "name"})

(* C5: the linkage pass examines pairs in ascending index order; the first *)
(* pair with a name mismatch or a failing signature ends the call at once  *)
(* with INVALID: verify_signature is never called for a name-mismatched    *)
(* pair, no later pair is examined and the trust-anchor pass is not run.   *)
C5_LinkageShortCircuit ==
    /\ \A p \in 1..Len(vc.log) :
          LET e == vc.log[p]
          IN  /\ e.op = "name" => e.i = NameEventsBefore(p)
              /\ e.op = "sig" =>
                    p > 1 /\ vc.log[p - 1] = Event("name", e.i, TRUE)
              /\ (e.op \in {"name", "sig"} /\ ~e.ok) =>
                    /\ p = Len(vc.log)
                    /\ vc.pc = "done"
                    /\ vc.result[1].status = "INVALID"
                    /\ ~vc.result[1].is_valid
                    /\ PairBad(e.i)
                    /\ \A j \in 0..(e.i - 1) : ~PairBad(j)
    /\ (/\ vc.pc = "done"
        /\ \A i \in 0..(ChainLen - 1) : LogHas("structural", i, TRUE)
        /\ \E i \in 0..(ChainLen - 2) : PairBad(i)) =>
          /\ vc.result[1].status = "INVALID"
          /\ vc.log[Len(vc.log)].op \in {"name", "sig"}
          /\ ~vc.log[Len(vc.log)].ok

C5_Witness ==
    /\ vc.pc = "done"
    /\ ChainLen = 3
    /\ ~PairNamesLink(0)
    /\ PairSignatureGood(0)
    /\ PairNamesLink(1)
    /\ vc.use_truststore /\ vc.truststore # <<>>
    /\ vc.log[Len(vc.log)] = Event("name", 0, FALSE)
    /\ \A p \in 1..Len(vc.log) : vc.log[p].op \in {"structural", "name"}
    /\ vc.result[1].status = "INVALID"

(* C11: in check_all_hosts a failure on one host does not delay another:   *)
(* while the failing or timing-out check of the host at position i is      *)
(* still running, the check of any host j # i that has not started yet can *)
(* start without waiting for it.                                           *)
C11_FailureDoesNotDelayOthers ==
    (sched.pc = "loop" /\ sched.inflight # None
        /\ sched.inflight[1].net \in BatchFailingNets) =>
        \A j \in 1..Len(sched.enabled_hosts) :
            j > sched.inflight[1].k => ENABLED BeginCheckAt(j)

(***************************************************************************)
(* Properties of verify_hostname (SpecVH).                                 *)
(***************************************************************************)
CnMatches(cert, fqdn) ==
    /\ Len(cert.subject) > 0
    /\ cert.subject[1] # <<>>
    /\ match_hostname(cert.subject[1], fqdn)

DnsSanMatches(cert, fqdn) ==
    \E k \in 1..Len(cert.san) : match_hostname(cert.san[k], fqdn)

(* C12: verify_hostname returns true iff the subject CN is present and     *)
(* matches the fqdn under _match_hostname or some SAN DNS entry matches    *)
(* it, and false when neither does (also with no CN and no SAN); an        *)
(* IP-address SAN entry is never a candidate.  It returns whenever the     *)
(* extensions can be read.                                                 *)
C12_VerifyHostnameCnOrDnsSan ==
    vhCall # None =>
        LET c == vhCall[1]
        IN  /\ ~c.cert.ext_malformed => c.outcome.kind = "return"
            /\ c.outcome.kind = "return" =>
                  (c.outcome.value <=>
                       (CnMatches(c.cert, c.fqdn) \/ DnsSanMatches(c.cert, c.fqdn)))

C12_Witness ==
    /\ vhCall # None
    /\ vhCall[1].fqdn = S_ip
    /\ vhCall[1].cert.san_ip = <<S_ip>>
    /\ vhCall[1].cert.subject = <<>>
    /\ vhCall[1].cert.san = <<S_ab>>
    /\ vhCall[1].outcome = Returned(FALSE)

(* C13: validate_chain on an empty chain returns INVALID, is_valid false,  *)
(* with the trail <<"Empty certificate chain">> and nothing else: no       *)
(* structural, linkage or trust-anchor check runs, whatever the trust      *)
(* store and the use_truststore flag.                                      *)
C13_EmptyChainInvalid ==
    (vc.pc # "idle" /\ vc.cert_chain = <<>>) =>
        /\ vc.pc = "done"
        /\ vc.result = Some(ValidationResult("INVALID",
                                <<"Empty certificate chain">>, FALSE))
        /\ vc.log = <<>>

C13_Witness ==
    /\ vc.pc = "done"
    /\ vc.cert_chain = <<>>
    /\ vc.use_truststore
    /\ Len(vc.truststore) = 2
    /\ vc.result[1].status = "INVALID"

StructurallyBad(cert) ==
    /\ cert.basic_constraints # None
    /\ cert.basic_constraints[1].ca
    /\ cert.key_usage # None
    /\ ~cert.key_usage[1].key_cert_sign

SomeStructurallyBad ==
    \E i \in 0..(ChainLen - 1) : StructurallyBad(vc.cert_chain[i + 1])

FirstStructurallyBad ==
    CHOOSE i \in 0..(ChainLen - 1) :
        /\ StructurallyBad(vc.cert_chain[i + 1])
        /\ \A j \in 0..(i - 1) : ~StructurallyBad(vc.cert_chain[j + 1])

RECURSIVE StructuralTrail(_)
StructuralTrail(upto) ==
    IF upto < 0 THEN <<>>
    ELSE StructuralTrail(upto - 1)
           \o Tagged(upto, check_basic_constraints(vc.cert_chain[upto + 1]).messages)
           \o Tagged(upto, check_key_usage(vc.cert_chain[upto + 1]).messages)

(* C14: in the structural pass the first certificate that is a CA and has  *)
(* a key-usage extension without keyCertSign makes the result INVALID at   *)
(* once; the trail holds the messages of certificates 0..i and ends with   *)
(* that failure message; no later certificate, no linkage pair and no      *)
(* trust anchor is examined.                                               *)
C14_StructuralShortCircuit ==
    /\ \A p \in 1..Len(vc.log) :
          (vc.log[p].op = "structural" /\ ~vc.log[p].ok) =>
              p = Len(vc.log) /\ vc.pc = "done"
    /\ (vc.pc = "done" /\ SomeStructurallyBad) =>
          LET f == FirstStructurallyBad
              r == vc.result[1]
          IN  /\ r.status = "INVALID" /\ ~r.is_valid
              /\ r.messages = StructuralTrail(f)
              /\ r.messages[Len(r.messages)] =
                    "Cert " \o ToString(f) \o
                    ": CA certificate missing key_cert_sign usage"
              /\ Len(vc.log) = f + 1
              /\ \A p \in 1..(f + 1) :
                    vc.log[p] = Event("structural", p - 1, p - 1 # f)

C14_Witness ==
    /\ vc.pc = "done"
    /\ ChainLen = 3
    /\ SomeStructurallyBad
    /\ FirstStructurallyBad = 1
    /\ vc.use_truststore /\ vc.truststore # <<>>
    /\ Len(vc.result[1].messages) >= 4
    /\ Len(vc.log) = 2

HardFailure ==
    \/ vc.cert_chain = <<>>
    \/ SomeStructurallyBad
    \/ \E i \in 0..(ChainLen - 2) : PairBad(i)
    \/ (vc.use_truststore /\ vc.truststore # <<>> /\ ~Anchored)

InTrail(message) ==
    \E k \in 1..Len(vc.result[1].messages) : vc.result[1].messages[k] = message

(* C15: a missing key-usage or basic-constraints extension never makes     *)
(* validate_chain INVALID, it only records a message; when no pass         *)
(* hard-fails the result is VALID with is_valid true; the status is never  *)
(* WARNING and is_valid is true iff the status is VALID.                   *)
C15_MissingExtensionsNotFatal ==
    vc.pc = "done" =>
        LET r == vc.result[1]
        IN  /\ r.status \in {"VALID", "INVALID"}
            /\ r.is_valid <=> (r.status = "VALID")
            /\ ~HardFailure => r.status = "VALID"
            /\ r.status = "VALID" =>
                  \A i \in 0..(ChainLen - 1) :
                      /\ vc.cert_chain[i + 1].key_usage = None =>
                            InTrail("Cert " \o ToString(i) \o
                                    ": Key usage extension not found")
                      /\ vc.cert_chain[i + 1].basic_constraints = None =>
                            InTrail("Cert " \o ToString(i) \o
                                    ": Basic constraints extension not found")

C15_Witness ==
    /\ vc.pc = "done"
    /\ ChainLen = 3
    /\ vc.cert_chain[3].key_usage = None
    /\ vc.cert_chain[3].basic_constraints = None
    /\ vc.use_truststore /\ vc.truststore # <<>>
    /\ vc.result[1].status = "VALID"
    /\ InTrail("Cert 2: Key usage extension not found")

AnchorEvents ==
    {p \in 1..Len(vc.log) : vc.log[p].op \in {"anchor_name", "anchor_sig"}}

(* C16: if use_truststore is false or the trust store is empty no          *)
(* trust-anchor lookup happens, and a chain that passes the structural and *)
(* linkage passes is VALID, also with use_truststore true and an empty     *)
(* store.                                                                  *)
C16_NoTrustPassWithoutStore ==
    (~vc.use_truststore \/ vc.truststore = <<>>) =>
        /\ vc.pc # "trust"
        /\ AnchorEvents = {}
        /\ (vc.pc = "done" /\ StructuralAndLinkagePassed) =>
              vc.result[1].status = "VALID" /\ vc.result[1].is_valid

C16_Witness ==
    /\ vc.pc = "done"
    /\ vc.use_truststore
    /\ vc.truststore = <<>>
    /\ ChainLen = 3
    /\ StructuralAndLinkagePassed
    /\ vc.result[1].status = "VALID"

LastCert == vc.cert_chain[ChainLen]

TrustPassReached ==
    /\ vc.pc = "done"
    /\ vc.use_truststore /\ vc.truststore # <<>>
    /\ StructuralAndLinkagePassed

(* C17 as stated: a final chain element that is not self-signed is         *)
(* accepted by the trust-anchor pass as long as some trust-store anchor's  *)
(* signature verifies it.                                                  *)
C17_Original ==
    (/\ TrustPassReached
     /\ LastCert.subject # LastCert.issuer
     /\ \E t \in 1..Len(vc.truststore) :
           verify_signature(LastCert, vc.truststore[t])) =>
        vc.result[1].status = "VALID" /\ vc.result[1].is_valid

(* C17 amended: a final chain element that is not self-signed is accepted  *)
(* by the trust-anchor pass as long as some trust-store anchor has the     *)
(* same subject as that element and its signature verifies it;             *)
(* self-signedness of the last element is never separately required.       *)
C17_NonSelfSignedRootAccepted ==
    (/\ TrustPassReached
     /\ LastCert.subject # LastCert.issuer
     /\ \E t \in 1..Len(vc.truststore) :
           /\ vc.truststore[t].subject = LastCert.subject
           /\ verify_signature(LastCert, vc.truststore[t])) =>
        vc.result[1].status = "VALID" /\ vc.result[1].is_valid

C17_Witness ==
    /\ TrustPassReached
    /\ ChainLen = 3
    /\ LastCert = CrossRoot
    /\ LastCert.subject # LastCert.issuer
    /\ vc.truststore = <<OtherAnchor, RootX>>
    /\ vc.result[1].status = "VALID"

(***************************************************************************)
(* Properties of verify_signature (SpecSig) and validate_single            *)
(* (SpecSingle).                                                           *)
(***************************************************************************)
SupportedKeyAlgorithms == {"RSA", "EC", "DSA"}

KeyVerifies(public_key, cert) ==
    cert.sig_hash = "sha256" /\ cert.signer = public_key.id

(* C18: verify_signature never raises; it returns true only when the       *)
(* issuer's RSA, EC or DSA public key verifies the certificate's signature *)
(* with the certificate's declared hash, and returns false for an invalid  *)
(* signature, for an issuer key of another algorithm and for any exception *)
(* raised during verification.                                             *)
C18_VerifySignatureTotal ==
    sigCall # None =>
        LET c   == sigCall[1]
            key == c.issuer_cert.key
        IN  /\ c.outcome.kind = "return"
            /\ c.outcome.value \in BOOLEAN
            /\ c.outcome.value =>
                  /\ key.alg \in SupportedKeyAlgorithms
                  /\ KeyVerifies(key, c.cert)
            /\ ~KeyVerifies(key, c.cert) => c.outcome.value = FALSE
            /\ key.alg \notin SupportedKeyAlgorithms => c.outcome.value = FALSE
            /\ c.body.kind = "raise" => c.outcome.value = FALSE

C18_Witness ==
    /\ sigCall # None
    /\ sigCall[1].issuer_cert.key.alg = "EC"
    /\ sigCall[1].cert.signer = sigCall[1].issuer_cert.key.id
    /\ sigCall[1].body.kind = "raise"
    /\ sigCall[1].body.exc.cls = "UnsupportedAlgorithm"
    /\ sigCall[1].outcome = Returned(FALSE)

(* C19: validate_single returns INVALID iff the certificate is a CA whose  *)
(* key usage is present without keyCertSign, or it is self-signed and its  *)
(* signature does not verify against its own public key; otherwise VALID;  *)
(* for a certificate that is not self-signed no signature is verified.     *)
C19_ValidateSingle ==
    vsCall # None =>
        LET cert == vsCall[1].cert
            r    == vsCall[1].outcome.result
            self_signed == cert.subject = cert.issuer
        IN  /\ r.status \in {"VALID", "INVALID"}
            /\ r.status = "INVALID" <=>
                  \/ StructurallyBad(cert)
                  \/ (self_signed /\ ~verify_signature(cert, cert))
            /\ r.is_valid <=> (r.status = "VALID")
            /\ ~self_signed => vsCall[1].outcome.verified = <<>>

C19_Witness ==
    /\ vsCall # None
    /\ vsCall[1].cert.subject # vsCall[1].cert.issuer
    /\ vsCall[1].cert.signer # vsCall[1].cert.key.id
    /\ ~StructurallyBad(vsCall[1].cert)
    /\ vsCall[1].outcome.verified = <<>>
    /\ vsCall[1].outcome.result.status = "VALID"

(***************************************************************************)
(* Classification of check_host failures (SpecHost).                       *)
(***************************************************************************)
ErrorPrefixes ==
    {"Connection timeout after ", "DNS resolution failed: ",
     "Connection error: ", "No certificate received", "Unexpected error: "}

ExpectedPrefix(cls) ==
    CASE cls = "timeout"  -> "Connection timeout after "
      [] cls = "gaierror" -> "DNS resolution failed: "
      [] cls \in {"ConnectionRefusedError", "OSError", "SSLError"} ->
             "Connection error: "
      [] OTHER            -> "Unexpected error: "

(* C20: check_host reports each fetch failure under exactly one message    *)
(* prefix, the most specific one: timeout, DNS failure, other socket or    *)
(* TLS error, empty certificate response, any other exception; the five    *)
(* prefixes are pairwise distinct and a timeout or DNS failure is never    *)
(* reported as a generic connection error.                                 *)
C20_FailureClassification ==
    /\ Cardinality(ErrorPrefixes) = 5
    /\ hostCall # None =>
          LET c == hostCall[1]
              f == Fetched(c)
              r == c.outcome.value
          IN  /\ f.kind = "raise" =>
                    /\ c.outcome.kind = "return"
                    /\ r.error # None
                    /\ r.error[1][1] = ExpectedPrefix(f.exc.cls)
              /\ (f.kind = "return" /\ Len(f.value) = 0) =>
                    /\ c.outcome.kind = "return"
                    /\ r.error = Some(<<"No certificate received">>)
              /\ (c.outcome.kind = "return" /\ r.error # None) =>
                    r.error[1][1] \in ErrorPrefixes

C20_Witness ==
    /\ hostCall # None
    /\ hostCall[1].net.handshake # None
    /\ hostCall[1].net.handshake[1].cls = "timeout"
    /\ hostCall[1].outcome.kind = "return"
    /\ hostCall[1].outcome.value.error # None
    /\ hostCall[1].outcome.value.error[1][1] = "Connection timeout after "

(***************************************************************************)
(* Day arithmetic of check_expiration (SpecExp).                           *)
(***************************************************************************)
(* C22: days_remaining is the floor of (not_after - now) in whole days,    *)
(* negative for every instant after not_after; not_after = now + 10 days   *)
(* gives 10 and not_after = now - 5 days gives -5.                         *)
C22_DaysRemainingIsFloor ==
    expCall # None =>
        LET c     == expCall[1]
            delta == c.cert.not_after - c.now
            d     == c.info.days_remaining
        IN  /\ d * HoursPerDay <= delta
            /\ delta < (d + 1) * HoursPerDay
            /\ c.now > c.cert.not_after => d < 0
            /\ delta = 10 * HoursPerDay => d = 10
            /\ delta = (0 - 5) * HoursPerDay => d = 0 - 5

C22_Witness ==
    /\ expCall # None
    /\ expCall[1].cert.not_after - expCall[1].now = (0 - 5) * HoursPerDay
    /\ expCall[1].info.days_remaining = 0 - 5

(* C23 as stated: for a current instant 23 hours past not_after,           *)
(* check_expiration reports is_expired = true but days_remaining = 0.      *)
C23_Original ==
    (expCall # None /\ expCall[1].now - expCall[1].cert.not_after = 23) =>
        /\ expCall[1].info.is_expired
        /\ expCall[1].info.days_remaining = 0

(* C23 amended: is_expired and days_remaining never disagree: is_expired   *)
(* is true exactly when days_remaining is negative, and for a current      *)
(* instant 23 hours past not_after check_expiration reports                *)
(* is_expired = true and days_remaining = -1.                              *)
C23_ExpiredIffNegativeDays ==
    expCall # None =>
        LET c == expCall[1]
        IN  /\ c.info.is_expired <=> (c.info.days_remaining < 0)
            /\ c.now - c.cert.not_after = 23 =>
                  c.info.is_expired /\ c.info.days_remaining = 0 - 1

C23_Witness ==
    /\ expCall # None
    /\ expCall[1].now - expCall[1].cert.not_after = 23
    /\ expCall[1].info.is_expired
    /\ expCall[1].info.days_remaining = 0 - 1

(***************************************************************************)
(* Case and partial wildcards in _match_hostname (SpecMatch).              *)
(***************************************************************************)
SwapCaseChar(c) ==
    CASE c = "A" -> "a" [] c = "a" -> "A"
      [] c = "B" -> "b" [] c = "b" -> "B"
      [] OTHER -> c

SwapCase(s) == [k \in 1..Len(s) |-> SwapCaseChar(s[k])]

(* C25: _match_hostname gives the same answer when the case of either      *)
(* argument is changed, and a pattern that does not begin with "*."        *)
(* (partial-label wildcards included) matches a hostname only when the two *)
(* are equal ignoring case.                                                *)
C25_CaseInsensitiveExactOnly ==
    matchCall # None =>
        LET c == matchCall[1]
        IN  /\ c.result = match_hostname(SwapCase(c.pattern), c.hostname)
            /\ c.result = match_hostname(c.pattern, SwapCase(c.hostname))
            /\ ~StartsWith(Lower(c.pattern), <<"*", ".">>) =>
                  (c.result <=> Lower(c.pattern) = Lower(c.hostname))

C25_Witness ==
    /\ matchCall # None
    /\ matchCall[1].pattern = <<"A", "*", ".", "b">>
    /\ matchCall[1].hostname = <<"a", "B", ".", "B">>
    /\ matchCall[1].result = FALSE

(***************************************************************************)
(* The audit trail of validate_chain (SpecChain).                          *)
(***************************************************************************)
IsPrefix(s, t) == Len(s) <= Len(t) /\ SubSeq(t, 1, Len(s)) = s

SomePairBad == \E i \in 0..(ChainLen - 2) : PairBad(i)

FirstPairBad ==
    CHOOSE i \in 0..(ChainLen - 2) :
        PairBad(i) /\ \A j \in 0..(i - 1) : ~PairBad(j)

SignatureConfirmations(k) ==
    [p \in 1..k |-> "Cert " \o ToString(p - 1) \o ": Signature valid"]

LinkageFailureMessage(k) ==
    "Cert " \o ToString(k) \o
        (IF PairNamesLink(k) THEN ": Invalid signature from issuer"
         ELSE ": Issuer does not match next cert in chain")

LinkageFailureTrail ==
    (vc.pc = "done" /\ ~SomeStructurallyBad /\ SomePairBad) =>
        LET k == FirstPairBad
        IN  /\ vc.result[1].status = "INVALID"
            /\ vc.result[1].messages =
                  StructuralTrail(ChainLen - 1)
                     \o SignatureConfirmations(k)
                     \o <<LinkageFailureMessage(k)>>

TrailStep ==
    /\ IsPrefix(vc.messages, vc'.messages)
    /\ vc.pc = "done" => vc' = vc
    /\ vc'.pc = "done" => vc'.result[1].messages = vc'.messages

(* C26: the audit trail of validate_chain is append-only and in pipeline   *)
(* order: when the linkage pass fails at pair k of a chain of n            *)
(* certificates the trail is the structural messages of all n certificates *)
(* in ascending index, then exactly k "Signature valid" confirmations for  *)
(* pairs 0..k-1, then one failure message tagged k as the last entry, and  *)
(* nothing is appended after the first hard failure.                       *)
C26_TrailAppendOnlyInOrder == [](LinkageFailureTrail) /\ [][TrailStep]_vars

C26_Witness ==
    /\ vc.pc = "done"
    /\ ChainLen = 3
    /\ ~SomeStructurallyBad
    /\ PairNamesLink(0) /\ ~PairBad(0)
    /\ PairBad(1)
    /\ vc.use_truststore /\ vc.truststore # <<>>
    /\ vc.result[1].messages[Len(vc.result[1].messages)] =
          LinkageFailureMessage(1)
    /\ Len(vc.result[1].messages) = Len(StructuralTrail(2)) + 2

(***************************************************************************)
(* Release of the connection by the fetch step (SpecFetch).                *)
(***************************************************************************)
(* C21: on every exit path of the fetch step (certificate returned, empty  *)
(* certificate, timeout, handshake or socket error, parse error) every TCP *)
(* socket and TLS session that was opened is closed when the step exits;   *)
(* no connection remains open.                                             *)
C21_FetchReleasesConnection ==
    fetch.pc = "done" =>
        /\ fetch.sock # "open"
        /\ fetch.ssock # "open"
        /\ fetch.outcome = Some(get_certificate_chain(fetch.net))

C21_Witness ==
    /\ fetch.pc = "done"
    /\ fetch.net.der = Some(GarbledDer)
    /\ fetch.outcome[1].kind = "raise"
    /\ fetch.sock = "detached"
    /\ fetch.ssock = "closed"

(***************************************************************************)
(* Columns of export_csv (SpecCsv).                                        *)
(***************************************************************************)
RECURSIVE SplitAt(_, _)
SplitAt(s, sep) ==
    IF \A k \in 1..Len(s) : s[k] # sep
    THEN <<s>>
    ELSE LET d == CHOOSE k \in 1..Len(s) :
                      s[k] = sep /\ \A j \in 1..(k - 1) : s[j] # sep
         IN  <<SubSeq(s, 1, d - 1)>> \o SplitAt(SubSeq(s, d + 1, Len(s)), sep)

CsvColumns == SplitAt(CsvHeader, ",")

(* C24: export_csv emits the 9-column header and one row per result, and   *)
(* every row has its values in the columns the header names: an error      *)
(* result leaves Subject, Issuer, Expiry and Days Remaining empty and has  *)
(* the error message in the Error column (9th field); a certificate result *)
(* fills Expiry and Days Remaining and leaves Error empty.                 *)
C24_CsvRowsMatchHeader ==
    csvCall # None =>
        LET c     == csvCall[1]
            lines == SplitAt(c.text, "\n")
        IN  /\ lines[1] = CsvHeader
            /\ Len(CsvColumns) = 9
            /\ CsvColumns[9] = <<"Error">>
            /\ Len(lines) = 1 + Len(c.results)
            /\ \A k \in 1..Len(c.results) :
                  LET fields == SplitAt(lines[k + 1], ",")
                      r      == c.results[k]
                  IN  /\ Len(fields) = Len(CsvColumns)
                      /\ r.error # None =>
                            /\ \A col \in 5..8 : fields[col] = <<>>
                            /\ fields[9] = r.error[1]
                      /\ r.error = None =>
                            /\ fields[7] # <<>> /\ fields[8] # <<>>
                            /\ fields[9] = <<>>

(***************************************************************************)
(* check_expiration over time (SpecWatch).                                 *)
(***************************************************************************)
StatusRank(status) ==
    CASE status = "VALID"   -> 0
      [] status = "WARNING" -> 1
      [] status = "EXPIRED" -> 2

NeverWarningAtZero ==
    (watch # None /\ watch[1].warning_days = 0) =>
        watch[1].info.status # "WARNING"

StatusMovesForward ==
    (watch # None /\ watch' # None /\ watch'[1].now >= watch[1].now) =>
        /\ watch'[1].cert = watch[1].cert
        /\ watch'[1].warning_days = watch[1].warning_days
        /\ StatusRank(watch'[1].info.status) >= StatusRank(watch[1].info.status)
        /\ watch'[1].info.days_remaining <= watch[1].info.days_remaining

(* C27: for a fixed certificate and threshold, as the current instant      *)
(* advances the status of check_expiration only moves forward along        *)
(* VALID -> WARNING -> EXPIRED, days_remaining never increases, and with   *)
(* warning_days = 0 the status is never WARNING.                           *)
C27_StatusMonotoneInTime == [](NeverWarningAtZero) /\ [][StatusMovesForward]_vars

C27_Witness ==
    /\ watch # None
    /\ watch[1].warning_days > 0
    /\ watch[1].first.status = "VALID"
    /\ watch[1].info.status = "WARNING"
    /\ watch[1].info.days_remaining = 0
    /\ watch[1].now > watch[1].first.not_after - HoursPerDay

(***************************************************************************)
(* Independence of the validator from validity windows (SpecWin).          *)
(***************************************************************************)
OutsideWindow(cert) ==
    <<cert.not_before, cert.not_after>> \in {ExpiredWindow, FutureWindow}

(* C28: validate_chain and validate_single never consult a certificate's   *)
(* validity window or the current time: status and trail are the same      *)
(* whatever not_before and not_after the certificates carry, so a chain    *)
(* with an expired or not-yet-valid certificate that passes the three      *)
(* passes is reported VALID.                                               *)
C28_ValidityWindowIgnored ==
    win # None =>
        /\ win[1].kind = "chain" =>
              /\ win[1].a.pc = win[1].b.pc
              /\ win[1].a.messages = win[1].b.messages
              /\ win[1].a.result = win[1].b.result
        /\ win[1].kind = "single" =>
              win[1].ra[1].result = win[1].rb[1].result

C28_Witness ==
    /\ win # None
    /\ win[1].kind = "chain"
    /\ win[1].b.pc = "done"
    /\ Len(win[1].b.cert_chain) = 3
    /\ \A k \in 1..3 : OutsideWindow(win[1].b.cert_chain[k])
    /\ win[1].b.cert_chain[1].not_after = ExpiredWindow[2]
    /\ win[1].b.use_truststore
    /\ Len(win[1].b.truststore) = 2
    /\ win[1].b.result[1].status = "VALID"
    /\ win[1].a.result[1].status = "VALID"

(***************************************************************************)
(* Issuers that are not CAs (SpecChain).                                   *)
(***************************************************************************)
NotCA(cert) ==
    cert.basic_constraints = None \/ ~cert.basic_constraints[1].ca

(* C29: validate_chain never rejects a chain because an issuing            *)
(* certificate is not a CA: a certificate whose basicConstraints is absent *)
(* or has CA = false passes the structural pass at every position, and a   *)
(* chain in which such a certificate signs the next-lower one is VALID if  *)
(* names and signatures link.                                              *)
C29_NonCAIssuerAccepted ==
    /\ \A p \in 1..Len(vc.log) :
          (vc.log[p].op = "structural"
              /\ NotCA(vc.cert_chain[vc.log[p].i + 1])) => vc.log[p].ok
    /\ (/\ vc.pc = "done"
        /\ \E i \in 1..(ChainLen - 1) : NotCA(vc.cert_chain[i + 1])
        /\ ~SomeStructurallyBad
        /\ ~SomePairBad
        /\ ((vc.use_truststore /\ vc.truststore # <<>>) => Anchored)) =>
          (vc.result[1].status = "VALID" /\ vc.result[1].is_valid)

C29_Witness ==
    /\ vc.pc = "done"
    /\ vc.cert_chain = <<LeafCert, InterNotCA, CrossRoot>>
    /\ vc.use_truststore
    /\ vc.truststore = <<RootX>>
    /\ LogHas("structural", 1, TRUE)
    /\ LogHas("sig", 0, TRUE)
    /\ vc.result[1].status = "VALID"

(***************************************************************************)
(* Shape of the results of check_host (SpecHost).                          *)
(***************************************************************************)
(* C30: in every HostCheckResult returned by check_host, status is ERROR   *)
(* iff error is populated or hostname_valid is false; a result with status *)
(* ERROR and no error message has certificate and expiration populated     *)
(* with expiration.status still VALID, WARNING or EXPIRED; hostname_valid  *)
(* is populated iff certificate is populated.                              *)
C30_ErrorStatusCauses ==
    (hostCall # None /\ hostCall[1].outcome.kind = "return") =>
        LET r == hostCall[1].outcome.value
        IN  /\ (r.status = "ERROR") <=>
                  (r.error # None \/ r.hostname_valid = Some(FALSE))
            /\ (r.hostname_valid # None) <=> (r.certificate # None)
            /\ (r.status = "ERROR" /\ r.error = None) =>
                  /\ r.certificate # None
                  /\ r.expiration # None
                  /\ r.expiration[1].status \in {"VALID", "WARNING", "EXPIRED"}

C30_Witness ==
    /\ hostCall # None
    /\ hostCall[1].outcome.kind = "return"
    /\ hostCall[1].outcome.value.status = "ERROR"
    /\ hostCall[1].outcome.value.error = None
    /\ hostCall[1].outcome.value.hostname_valid = Some(FALSE)
    /\ hostCall[1].outcome.value.certificate # None
    /\ hostCall[1].outcome.value.expiration[1].status = "WARNING"

====
